---------------------------- MODULE Spec2Model ----------------------------
(***************************************************************************)
(* Fluxion: the adaptive parallel-range download engine.                   *)
(*                                                                         *)
(* Sizes of resources and files are counted in blocks of 64 KiB (the size  *)
(* of one write of the single-stream path), so 1 MiB is 16 blocks and the  *)
(* chunker's minimum chunk of 256 KiB is 4 blocks.  The pure planner       *)
(* (SpecChunker) is unit-free.  Delays are counted in milliseconds, so     *)
(* that base * 2^(attempt-1) is an integer at attempt 0.                   *)
(*                                                                         *)
(* Block i of the server's resource has the value i (1-based), so a file   *)
(* equals the resource exactly when it is the sequence <<1, ..., N>>.      *)
(***************************************************************************)
EXTENDS Integers, Sequences, FiniteSets, TLC

VARIABLES
    request,          \* FetchRequest: chunk_size, max_retries, max_connections, resume
    server,           \* the remote resource: size, accept_ranges, sends_length
    disk,             \* the output file: NoFile or its sequence of blocks
    pc,               \* where the fetch coroutine stands
    stats,            \* the live TransferStats object
    sink,             \* the last TransferStats delivered to on_progress
    outcome,          \* what fetch returned or raised
    probe,            \* the probe loop and its ProbeResult
    resume_offset,    \* fetch's resume_offset
    chunk_size,       \* AdaptiveChunker._chunk_size
    chunker,          \* the rest of the AdaptiveChunker: _min, _max, has it a sample
    total_size,       \* ParallelScheduler._total_size
    offset,           \* ParallelScheduler._offset
    chunks,           \* the plan: a sequence of ChunkPlan
    concurrency,      \* the permits of execute's semaphore
    workers,          \* one _run_chunk task per planned chunk
    results,          \* execute's results list, in append order
    completed_bytes,  \* ParallelScheduler._completed_bytes
    strm,             \* the locals of _stream_download
    result,           \* fetch's result: the bytes the download path returned
    sha256,           \* fetch's sha256
    faults,           \* failing responses the server has given so far
    stealth,          \* the StealthContext: profile, cookie_jar, custom_headers, referer
    stealth_headers,  \* the headers build_headers returned
    added,            \* the last call of add_raw: the cookies meant and the raw text
    mirror,           \* the locals of mirror: the probes of the URLs, the URL fetched
    optimizer,        \* a ConnectionOptimizer on its own
    bench,            \* the locals of bench
    classifier        \* a call of RetryClassifier.classify_status and its decision

vars == <<request, server, disk, pc, stats, sink, outcome, probe, resume_offset,
          chunk_size, chunker, total_size, offset, chunks, concurrency, workers, results,
          completed_bytes, strm, result, sha256, faults, stealth, stealth_headers,
          added, mirror, optimizer, bench, classifier>>

-----------------------------------------------------------------------------
(* Bounds of the model.                                                    *)

\* SpecChunker: the largest chunk size, total size and offset planned.
PlanMaxChunk == 3
PlanMaxSize == 5

\* Spec: a small resource has 0..MaxSmall blocks and is fetched with a chunk
\* size of one block; a big one has MiB + 1 .. MiB + MaxBigExtra blocks and
\* is fetched with a chunk size of half a MiB.
MaxSmall == 3
MaxBigExtra == 1
\* Spec: request.max_retries and request.max_connections range up to these.
MaxRetries == 4
MaxConn == 2
\* Spec: the server gives at most MaxFaults failing responses during the
\* probe, and at most MaxFaults during the download of a small resource and
\* MaxBigFaults during the download of a big one.
MaxFaults == 4
MaxBigFaults == 2

\* SpecMirror: mirror is called with 0..MaxUrls URLs, and a probe that
\* succeeds measures a latency of 1..MaxLatency.
MaxUrls == 3
MaxLatency == 3

\* SpecOptimizer: an optimizer is built with minimum in 1..MaxOptMin and
\* maximum up to MaxOptMax, and report_throttle is called while fewer than
\* MaxThrottles throttle reports are outstanding.
MaxOptMin == 2
MaxOptMax == 3
MaxThrottles == 2

\* SpecSuggest: suggest_concurrency is asked of optimizers with a maximum up
\* to MaxSuggestMax.
MaxSuggestMax == 17

\* SpecClassifier: classify_status is called with attempt in 0..MaxAttempt.
MaxAttempt == 6

\* SpecBench: bench is called with 0..MaxIterations iterations, and a HEAD
\* that succeeds takes 1..MaxLatency ms.
MaxIterations == 4

-----------------------------------------------------------------------------
(* Helpers.                                                                *)

Min(a, b) == IF a <= b THEN a ELSE b

Max(a, b) == IF a >= b THEN a ELSE b

RECURSIVE Pow2(_)
Pow2(n) == IF n <= 0 THEN 1 ELSE 2 * Pow2(n - 1)

\* Python's None where an int is expected (content_length, bytes_total).
NoneInt == -1

-----------------------------------------------------------------------------
(* performance/chunker.py                                                  *)

ChunkPlan(idx, start, end) == [index |-> idx, start |-> start, end |-> end]

\* ChunkPlan.size
size(plan) == plan.end - plan.start + 1

\* MIN_CHUNK and MAX_CHUNK, 256 KiB and 16 MiB, in blocks.
MIN_CHUNK == 4
MAX_CHUNK == 256

\* AdaptiveChunker.__init__(initial_chunk_size, min_chunk, max_chunk): the
\* fields beside _chunk_size, which takes initial_chunk_size as it is.
\* sampled stands for _ema_throughput being set.
AdaptiveChunker(min_chunk, max_chunk) ==
    [min |-> min_chunk, max |-> max_chunk, sampled |-> FALSE]

\* No chunker has been built.
NoChunker == [min |-> 0, max |-> 0, sampled |-> FALSE]

\* AdaptiveChunker.feedback(bytes_transferred, elapsed_sec): the new
\* _chunk_size.  positive is elapsed_sec > 0; above is throughput >=
\* _ema_throughput after the update, which is so for the first sample and
\* otherwise is as the measured time makes it.
feedback(cs, ch, positive, above) ==
    IF ~positive THEN cs
    ELSE IF above \/ ~ch.sampled THEN Min(cs * 2, ch.max)
    ELSE Max(cs \div 2, ch.min)

\* Fault injection for C1: the chunk end without the cap at total - 1.
chunk_end_uncapped(cs, total, pos) == pos + cs - 1

\* The end of the chunk that starts at pos.
chunk_end(cs, total, pos) == Min(pos + cs - 1, total - 1)

\* The while loop of plan_chunks, from position pos and index idx.
RECURSIVE plan_loop(_, _, _, _)
plan_loop(cs, total, pos, idx) ==
    IF pos < total
    THEN LET end == chunk_end(cs, total, pos)
         IN  <<ChunkPlan(idx, pos, end)>> \o plan_loop(cs, total, end + 1, idx + 1)
    ELSE <<>>

\* AdaptiveChunker.plan_chunks(total_size, offset) at chunk size cs.
plan_chunks(cs, total, off) == plan_loop(cs, total, off, 0)

-----------------------------------------------------------------------------
(* performance/retry.py                                                    *)

FATAL == "fatal"
RETRY_BACKOFF == "retry_backoff"
RETRY_IMMEDIATE == "retry_immediate"

_RETRYABLE_STATUS == {408, 429, 500, 502, 503, 504}

_FATAL_STATUS == {400, 401, 403, 404, 405, 410, 451}

\* RetryClassifier's defaults, as the engine constructs it: RetryClassifier().
MAX_RETRIES == 3
BASE_BACKOFF_MS == 1000
MAX_BACKOFF_MS == 30000
IMMEDIATE_DELAY_MS == 500

RetryDecision(verdict, delay) == [verdict |-> verdict, delay_sec |-> delay]

\* base * 2 ** e in milliseconds, for e >= -1.
backoff_ms(e) == IF e < 0 THEN BASE_BACKOFF_MS \div 2 ELSE BASE_BACKOFF_MS * Pow2(e)

\* RetryClassifier.classify_status(status_code, attempt)
classify_status(status_code, attempt) ==
    IF 200 <= status_code /\ status_code < 300 THEN RetryDecision(FATAL, 0)
    ELSE IF status_code \in _FATAL_STATUS THEN RetryDecision(FATAL, 0)
    ELSE IF status_code = 429
         THEN RetryDecision(RETRY_BACKOFF, Min(backoff_ms(attempt), MAX_BACKOFF_MS))
    ELSE IF status_code \in _RETRYABLE_STATUS
         THEN RetryDecision(RETRY_BACKOFF, Min(backoff_ms(attempt - 1), MAX_BACKOFF_MS))
    ELSE RetryDecision(RETRY_BACKOFF, BASE_BACKOFF_MS)

\* RetryClassifier.__init__(max_retries, base_backoff, max_backoff), the two
\* backoffs in ms, with no call of classify_status yet.
RetryClassifier(max_retries, base_backoff, max_backoff) ==
    [pc |-> "ready", _max_retries |-> max_retries, _base_backoff |-> base_backoff,
     _max_backoff |-> max_backoff, status_code |-> 0, attempt |-> 0,
     decision |-> RetryDecision(FATAL, 0)]

\* self._base_backoff * 2 ** e in ms, for e >= -1 and an even _base_backoff.
backoff_of(self, e) ==
    IF e < 0 THEN self._base_backoff \div 2 ELSE self._base_backoff * Pow2(e)

\* Fault injection for C27: classify_status with 2 ** attempt for every
\* retryable status.
classify_status_same_exponent(self, status_code, attempt) ==
    IF 200 <= status_code /\ status_code < 300 THEN RetryDecision(FATAL, 0)
    ELSE IF status_code \in _FATAL_STATUS THEN RetryDecision(FATAL, 0)
    ELSE IF status_code \in _RETRYABLE_STATUS
         THEN RetryDecision(RETRY_BACKOFF,
                            Min(backoff_of(self, attempt), self._max_backoff))
    ELSE RetryDecision(RETRY_BACKOFF, self._base_backoff)

\* RetryClassifier.classify_status(status_code, attempt) of a classifier
\* built with any base_backoff and max_backoff.
classify_status_of(self, status_code, attempt) ==
    IF 200 <= status_code /\ status_code < 300 THEN RetryDecision(FATAL, 0)
    ELSE IF status_code \in _FATAL_STATUS THEN RetryDecision(FATAL, 0)
    ELSE IF status_code = 429
         THEN RetryDecision(RETRY_BACKOFF,
                            Min(backoff_of(self, attempt), self._max_backoff))
    ELSE IF status_code \in _RETRYABLE_STATUS
         THEN RetryDecision(RETRY_BACKOFF,
                            Min(backoff_of(self, attempt - 1), self._max_backoff))
    ELSE RetryDecision(RETRY_BACKOFF, self._base_backoff)

\* The exception classes the model raises, with the keywords of
\* classify_exception that occur in the lower-cased class name.
ExcKeywords(name) ==
    CASE name = "ReadTimeout" -> {"timeout"}
      [] name = "ConnectError" -> {}
      [] OTHER -> {}

\* RetryClassifier.classify_exception(exc, attempt), exc given by its class name.
classify_exception(exc, attempt) ==
    LET kw == ExcKeywords(exc)
    IN  IF "timeout" \in kw
        THEN RetryDecision(RETRY_BACKOFF, Min(backoff_ms(attempt), MAX_BACKOFF_MS))
        ELSE IF kw \cap {"refused", "reset", "broken", "aborted"} # {}
        THEN RetryDecision(RETRY_IMMEDIATE, IMMEDIATE_DELAY_MS)
        ELSE IF kw \cap {"resolve", "dns", "gaierror"} # {}
        THEN RetryDecision(FATAL, 0)
        ELSE IF kw \cap {"ssl", "certificate"} # {}
        THEN RetryDecision(FATAL, 0)
        ELSE RetryDecision(RETRY_BACKOFF, Min(backoff_ms(attempt), MAX_BACKOFF_MS))

\* Fault injection for C8: should_retry without its test of the verdict.
should_retry_any(decision, attempt) == attempt < MAX_RETRIES

\* RetryClassifier.should_retry(decision, attempt): the classifier's own
\* max_retries decides, not the request's.
should_retry(decision, attempt) ==
    IF decision.verdict = FATAL THEN FALSE ELSE attempt < MAX_RETRIES

-----------------------------------------------------------------------------
(* stealth/cookies.py, stealth/profiles.py, stealth/context.py             *)
(* A dict is the sequence of its <<key, value>> pairs in insertion order.  *)
(* Text that the code parses or joins is a sequence of characters.         *)

keys(d) == {d[i][1] : i \in 1 .. Len(d)}

\* Fault injection for C17: an assignment that appends a second entry for a
\* key the dict has.
dict_append(d, k, v) == Append(d, <<k, v>>)

\* d[k] = v: a key of d keeps its place.
dict_set(d, k, v) ==
    IF k \in keys(d)
    THEN [i \in 1 .. Len(d) |-> IF d[i][1] = k THEN <<k, v>> ELSE d[i]]
    ELSE Append(d, <<k, v>>)

\* d.update(other), and the loops `for name, value in pairs: d[name] = value`.
RECURSIVE dict_update(_, _)
dict_update(d, other) ==
    IF other = <<>> THEN d
    ELSE dict_update(dict_set(d, Head(other)[1], Head(other)[2]), Tail(other))

\* text.find(c), 1-based; 0 when c does not occur.
find(text, c) ==
    LET at == {i \in 1 .. Len(text) : text[i] = c}
    IN  IF at = {} THEN 0 ELSE CHOOSE i \in at : \A j \in at : i <= j

\* text.split(sep)
RECURSIVE split(_, _)
split(text, sep) ==
    LET i == find(text, sep)
    IN  IF i = 0 THEN <<text>>
        ELSE <<SubSeq(text, 1, i - 1)>> \o split(SubSeq(text, i + 1, Len(text)), sep)

\* text.strip()
strip(text) ==
    LET at == {i \in 1 .. Len(text) : text[i] # " "}
    IN  IF at = {} THEN <<>>
        ELSE SubSeq(text, CHOOSE i \in at : \A j \in at : i <= j,
                          CHOOSE i \in at : \A j \in at : i >= j)

\* The body of the loop of CookieJar.add_raw for one part of the raw text.
add_part(cookies, part) ==
    LET stripped == strip(part)
        eq == find(stripped, "=")
    IN  IF eq = 0 THEN cookies
        ELSE LET name == strip(SubSeq(stripped, 1, eq - 1))
                 value == strip(SubSeq(stripped, eq + 1, Len(stripped)))
             IN  IF name # <<>> THEN dict_set(cookies, name, value) ELSE cookies

RECURSIVE add_parts(_, _)
add_parts(cookies, parts) ==
    IF parts = <<>> THEN cookies
    ELSE add_parts(add_part(cookies, Head(parts)), Tail(parts))

\* CookieJar.add_raw(raw): the jar's _cookies afterwards.
add_raw(cookies, raw) == add_parts(cookies, split(raw, ";"))

\* "; ".join(f"{k}={v}" for k, v in cookies.items())
RECURSIVE join_cookies(_)
join_cookies(cookies) ==
    IF cookies = <<>> THEN <<>>
    ELSE Head(cookies)[1] \o <<"=">> \o Head(cookies)[2]
             \o (IF Len(cookies) > 1 THEN <<";", " ">> ELSE <<>>)
             \o join_cookies(Tail(cookies))

\* CookieJar.as_header(): None, which is the empty text here, for an empty
\* jar; the header of a jar that is not empty is never empty.
as_header(cookies) == IF cookies = <<>> THEN <<>> ELSE join_cookies(cookies)

BrowserProfile(name, user_agent, headers, sec_headers) ==
    [name |-> name, user_agent |-> user_agent, headers |-> headers,
     sec_headers |-> sec_headers]

\* profile=None
NoProfile == BrowserProfile("", <<>>, <<>>, <<>>)

\* referer=None or the empty string: both are falsy.
NoReferer == <<>>

\* The names of _PROFILES.
ProfileNames == {"chrome", "firefox", "edge", "safari"}

\* _PROFILES[name]; a header value is a text of one piece.
_PROFILES(name) ==
    CASE name = "chrome" ->
        BrowserProfile("chrome",
            <<"Mozilla/5.0 (Windows NT 10.0; Win64; x64) AppleWebKit/537.36 (KHTML, like Gecko) Chrome/131.0.0.0 Safari/537.36">>,
            << <<"Accept", <<"text/html,application/xhtml+xml,application/xml;q=0.9,image/avif,image/webp,image/apng,*/*;q=0.8">> >>,
               <<"Accept-Language", <<"en-US,en;q=0.9">> >>,
               <<"Accept-Encoding", <<"gzip, deflate, br, zstd">> >>,
               <<"Cache-Control", <<"no-cache">> >>,
               <<"Pragma", <<"no-cache">> >>,
               <<"Upgrade-Insecure-Requests", <<"1">> >> >>,
            << <<"Sec-Ch-Ua", <<"\"Chromium\";v=\"131\", \"Not_A Brand\";v=\"24\", \"Google Chrome\";v=\"131\"">> >>,
               <<"Sec-Ch-Ua-Mobile", <<"?0">> >>,
               <<"Sec-Ch-Ua-Platform", <<"\"Windows\"">> >>,
               <<"Sec-Fetch-Dest", <<"document">> >>,
               <<"Sec-Fetch-Mode", <<"navigate">> >>,
               <<"Sec-Fetch-Site", <<"none">> >>,
               <<"Sec-Fetch-User", <<"?1">> >> >>)
      [] name = "firefox" ->
        BrowserProfile("firefox",
            <<"Mozilla/5.0 (Windows NT 10.0; Win64; x64; rv:134.0) Gecko/20100101 Firefox/134.0">>,
            << <<"Accept", <<"text/html,application/xhtml+xml,application/xml;q=0.9,*/*;q=0.8">> >>,
               <<"Accept-Language", <<"en-US,en;q=0.5">> >>,
               <<"Accept-Encoding", <<"gzip, deflate, br, zstd">> >>,
               <<"DNT", <<"1">> >>,
               <<"Upgrade-Insecure-Requests", <<"1">> >>,
               <<"Connection", <<"keep-alive">> >> >>,
            << <<"Sec-Fetch-Dest", <<"document">> >>,
               <<"Sec-Fetch-Mode", <<"navigate">> >>,
               <<"Sec-Fetch-Site", <<"none">> >>,
               <<"Sec-Fetch-User", <<"?1">> >> >>)
      [] name = "edge" ->
        BrowserProfile("edge",
            <<"Mozilla/5.0 (Windows NT 10.0; Win64; x64) AppleWebKit/537.36 (KHTML, like Gecko) Chrome/131.0.0.0 Safari/537.36 Edg/131.0.0.0">>,
            << <<"Accept", <<"text/html,application/xhtml+xml,application/xml;q=0.9,image/avif,image/webp,image/apng,*/*;q=0.8">> >>,
               <<"Accept-Language", <<"en-US,en;q=0.9">> >>,
               <<"Accept-Encoding", <<"gzip, deflate, br, zstd">> >>,
               <<"Cache-Control", <<"no-cache">> >>,
               <<"Pragma", <<"no-cache">> >>,
               <<"Upgrade-Insecure-Requests", <<"1">> >> >>,
            << <<"Sec-Ch-Ua", <<"\"Chromium\";v=\"131\", \"Not_A Brand\";v=\"24\", \"Microsoft Edge\";v=\"131\"">> >>,
               <<"Sec-Ch-Ua-Mobile", <<"?0">> >>,
               <<"Sec-Ch-Ua-Platform", <<"\"Windows\"">> >>,
               <<"Sec-Fetch-Dest", <<"document">> >>,
               <<"Sec-Fetch-Mode", <<"navigate">> >>,
               <<"Sec-Fetch-Site", <<"none">> >>,
               <<"Sec-Fetch-User", <<"?1">> >> >>)
      [] name = "safari" ->
        BrowserProfile("safari",
            <<"Mozilla/5.0 (Macintosh; Intel Mac OS X 14_7_2) AppleWebKit/605.1.15 (KHTML, like Gecko) Version/18.2 Safari/605.1.15">>,
            << <<"Accept", <<"text/html,application/xhtml+xml,application/xml;q=0.9,*/*;q=0.8">> >>,
               <<"Accept-Language", <<"en-US,en;q=0.9">> >>,
               <<"Accept-Encoding", <<"gzip, deflate, br">> >>,
               <<"Connection", <<"keep-alive">> >> >>,
            << <<"Sec-Fetch-Dest", <<"document">> >>,
               <<"Sec-Fetch-Mode", <<"navigate">> >>,
               <<"Sec-Fetch-Site", <<"none">> >> >>)

\* str.lower() on the texts of the model.
lower(name) ==
    CASE name = "Chrome" -> "chrome"
      [] name = "LYNX" -> "lynx"
      [] name = "Bytes" -> "bytes"
      [] OTHER -> name

\* get_profile(name) raises StealthError.
unknown_profile(name) == lower(name) \notin ProfileNames

\* get_profile(name) for a name it knows.
get_profile(name) == _PROFILES(lower(name))

StealthContext(profile, cookie_jar, custom_headers, referer) ==
    [profile |-> profile, cookie_jar |-> cookie_jar, custom_headers |-> custom_headers,
     referer |-> referer]

\* The headers of build_headers before the custom headers are merged in.
profile_headers(ctx) ==
    LET h0 == IF ctx.profile # NoProfile
              THEN dict_set(dict_update(dict_update(<<>>, ctx.profile.headers),
                                        ctx.profile.sec_headers),
                            "User-Agent", ctx.profile.user_agent)
              ELSE <<>>
    IN  IF ctx.referer # NoReferer
        THEN dict_set(h0, "Referer", ctx.referer) ELSE h0

\* Fault injection for C16: the Cookie header set before the custom headers
\* are merged in.
build_headers_cookie_first(ctx) ==
    LET cookie_header == as_header(ctx.cookie_jar)
        h2 == IF cookie_header # <<>>
              THEN dict_set(profile_headers(ctx), "Cookie", cookie_header)
              ELSE profile_headers(ctx)
    IN  dict_update(h2, ctx.custom_headers)

\* No add_raw call has been made.
NoCall == [pairs |-> <<>>, raw |-> <<>>]

\* The loop of lines 105-107 of engine.py over request.cookies.
RECURSIVE jar_of(_, _)
jar_of(cookies, jar) ==
    IF cookies = <<>> THEN jar
    ELSE jar_of(Tail(cookies),
                add_raw(jar, Head(cookies)[1] \o <<"=">> \o Head(cookies)[2]))

\* StealthContext.build_headers()
build_headers(ctx) ==
    LET h2 == dict_update(profile_headers(ctx), ctx.custom_headers)
        cookie_header == as_header(ctx.cookie_jar)
    IN  IF cookie_header # <<>> THEN dict_set(h2, "Cookie", cookie_header) ELSE h2

-----------------------------------------------------------------------------
(* The components that a fetch does not run, before they are used.         *)

\* mirror has not been called; best_url is 0 while no URL is fetched.
NoMirror == [pc |-> "idle", probes |-> <<>>, best_url |-> 0]

\* No ConnectionOptimizer stands on its own.
NoOptimizer == [pc |-> "idle"]

\* bench has not been called.
NoBench == [pc |-> "idle"]

\* classify_status has not been called.
NoClassify == [pc |-> "idle"]

-----------------------------------------------------------------------------
(* The environment: the request, the server and the output file.           *)

\* 1 MiB and 64 KiB in blocks of 64 KiB.
MiB == 16
STREAM_CHUNK == 1

\* request.chunk_size: one block, or half a MiB.
ChunkSizes == {1, MiB \div 2}

SmallSizes == 0 .. MaxSmall

BigSizes == (MiB + 1) .. (MiB + MaxBigExtra)

\* The requests of the fetch model carry no headers, cookies or referer;
\* browser_profile is None (the empty name here, as falsy), a known name in
\* another case, or an unknown name.  scheme is urlparse(url).scheme of the
\* request's url, one that fetch does not hand to _fetch_non_http.
Requests ==
    [chunk_size : ChunkSizes, max_retries : 0 .. MaxRetries,
     max_connections : 1 .. MaxConn, resume : BOOLEAN,
     browser_profile : {"", "Chrome", "LYNX"}, headers : {<<>>}, cookies : {<<>>},
     referer : {NoReferer}, scheme : {"https", "http"}]

\* range_body is what the server sends for a GET with a Range: the range
\* with status 206, the whole resource with status 200, or the range cut
\* short by a block.  The servers of a fetch send the range.
Servers ==
    [size : SmallSizes \cup BigSizes, accept_ranges : BOOLEAN, sends_length : BOOLEAN,
     range_body : {"range"}]

\* The pairs of request and server the model explores: a big resource is
\* there for the concurrent downloads, and its server supports ranges; a
\* request that names a profile, and one for a plaintext url, is otherwise
\* the plainest one.
Fits(req, srv) ==
    /\ \/ srv.size \in SmallSizes /\ req.chunk_size = 1
       \/ /\ srv.size \in BigSizes /\ req.chunk_size = MiB \div 2
          /\ srv.accept_ranges /\ srv.sends_length
    /\ req.browser_profile # "" =>
           req.max_retries = 0 /\ req.max_connections = 1 /\ ~req.resume
    /\ req.scheme = "http" =>
           /\ req.max_retries = 0 /\ req.max_connections = 1 /\ ~req.resume
           /\ req.browser_profile = ""

\* The failing responses the server may still give during the download.
FaultBudget == IF server.size \in BigSizes THEN MaxBigFaults ELSE MaxFaults

\* The server's blocks lo..hi (0-based, inclusive): block i has the value i + 1.
Content(lo, hi) == [k \in 1 .. (hi - lo + 1) |-> lo + k]

\* A file on disk, or none.
File(data) == [exists |-> TRUE, data |-> data]
NoFile == [exists |-> FALSE, data |-> <<>>]

\* The output file before the fetch: absent, the first k blocks of the
\* resource (an interrupted or a finished download), or a stale file of
\* N + 1 blocks that are not the resource's.
OldFiles(N) ==
    {NoFile}
        \cup {File(Content(0, k - 1)) : k \in (0 .. Min(N, MaxSmall)) \cup {N}}
        \cup {File([k \in 1 .. N + 1 |-> 0])}

\* A Content-Range header as the probe reads it: whether the text holds a
\* "/", whether what follows the last "/" is digits, and their number.
\* No header, read as "", and a text without "/":
NoContentRange == [slash |-> FALSE, digits |-> FALSE, total |-> 0]

\* "bytes 0-0/N"
ContentRange(N) == [slash |-> TRUE, digits |-> TRUE, total |-> N]

\* "bytes 0-0/*"
ContentRangeOfUnknown == [slash |-> TRUE, digits |-> FALSE, total |-> 0]

\* A response: an exception raised by the client (exc # ""), or a status
\* with the headers the engine reads.
Response(exc, status, ra, ar, cl, cr) ==
    [exc |-> exc, status_code |-> status, retry_after |-> ra,
     accept_ranges |-> ar, content_length |-> cl, content_range |-> cr]

Raised(exc) == Response(exc, 0, "", "", NoneInt, NoContentRange)

Status(code, ra) == Response("", code, ra, "", NoneInt, NoContentRange)

\* The failing answers to a request: a fatal status, a server error, a
\* throttle without and with Retry-After, and a transport error.
FaultResponses ==
    {Status(404, ""), Status(503, "")}
        \cup {Status(429, ra) : ra \in {"", "7", "soon"}}
        \cup {Raised("ReadTimeout")}

\* str.isdigit() and float() on the Retry-After values of the model.
isdigit(text) == text \in {"7"}

float(text) == CASE text = "7" -> 7 [] OTHER -> 0

-----------------------------------------------------------------------------
(* models.py: TransferStats, FetchResult; exceptions.py: NetworkError.     *)

\* active_connections is 0 until progress_cb sets it.
TransferStats(phase, nbytes, total, mode) ==
    [phase |-> phase, bytes_downloaded |-> nbytes, bytes_total |-> total,
     flux_mode |-> mode, active_connections |-> 0]

\* Nothing has been delivered to the progress sink yet.
NoStats == TransferStats("none", 0, NoneInt, "SMART")

\* IntegrityVerifier.compute_sha256 of a file's content; FetchResult.sha256
\* defaults to the empty string.
compute_sha256(data) == [hashed |-> TRUE, data |-> data]

NoSha == [hashed |-> FALSE, data |-> <<>>]

Pending == [kind |-> "none", bytes_downloaded |-> 0, sha256 |-> NoSha,
            resumed |-> FALSE, status_code |-> NoneInt]

FetchResult(nbytes, digest, was_resumed) ==
    [kind |-> "result", bytes_downloaded |-> nbytes, sha256 |-> digest,
     resumed |-> was_resumed, status_code |-> NoneInt]

NetworkError(code) ==
    [kind |-> "error", bytes_downloaded |-> 0, sha256 |-> NoSha,
     resumed |-> FALSE, status_code |-> code]

\* fetch was cancelled: asyncio.CancelledError leaves it.
CancelledError ==
    [kind |-> "cancelled", bytes_downloaded |-> 0, sha256 |-> NoSha,
     resumed |-> FALSE, status_code |-> NoneInt]

\* fetch raised StealthError.
StealthError ==
    [kind |-> "stealth_error", bytes_downloaded |-> 0, sha256 |-> NoSha,
     resumed |-> FALSE, status_code |-> NoneInt]

-----------------------------------------------------------------------------
(* performance/optimizer.py                                                *)

\* Fault injection for C26: suggest_concurrency without the caps at maximum.
suggest_concurrency_uncapped(content_length, minimum, maximum) ==
    IF content_length = NoneInt THEN minimum
    ELSE IF content_length < MiB THEN 1
    ELSE IF content_length < 10 * MiB THEN 4
    ELSE IF content_length < 100 * MiB THEN 8
    ELSE 16

\* ConnectionOptimizer.suggest_concurrency(content_length) of an optimizer
\* with the given minimum and maximum.
suggest_concurrency(content_length, minimum, maximum) ==
    IF content_length = NoneInt THEN minimum
    ELSE IF content_length < MiB THEN 1
    ELSE IF content_length < 10 * MiB THEN Min(4, maximum)
    ELSE IF content_length < 100 * MiB THEN Min(8, maximum)
    ELSE Min(16, maximum)

\* ConnectionOptimizer's default minimum.
OPT_MINIMUM == 1

-----------------------------------------------------------------------------
(* core/engine.py: probe                                                   *)

max_probe_retries == 3

ProbeIdle ==
    [pc |-> "idle", attempt |-> 0, requests |-> 0, delay |-> 0, head |-> 0,
     resp |-> Status(0, ""), supports_range |-> FALSE, content_length |-> NoneInt]

\* The server's answer to HEAD when it serves the resource.
HeadOk == Response("", 200, "", IF server.accept_ranges THEN "bytes" ELSE "",
                   IF server.sends_length THEN server.size ELSE NoneInt, NoContentRange)

\* The server's answers to GET with Range: bytes=0-0.
FallbackResponses ==
    { IF server.accept_ranges
      THEN IF server.size > 0
           THEN Response("", 206, "", "bytes", 1, ContentRange(server.size))
           ELSE Status(416, "")
      ELSE Response("", 200, "", "",
                    IF server.sends_length THEN server.size ELSE NoneInt, NoContentRange),
      Status(404, "") }

\* The answers of any server to the probe's requests, when probe is called
\* on its own: every status the probe tells apart, with and without the
\* headers it reads, and a transport error.
AnyResponses ==
    {Response("", status, "", ar, cl, cr) :
         status \in {200, 206, 403, 404, 405, 429, 500, 501, 502, 503},
         ar \in {"", "bytes", "Bytes", "none"},
         cl \in {NoneInt, 1},
         cr \in {NoContentRange, ContentRange(5), ContentRangeOfUnknown}}
        \cup {Response("", 429, "7", "", NoneInt, NoContentRange), Raised("ConnectError")}

\* The answers to the probe's HEAD and GET: of the server of the fetch (a
\* HEAD it refuses is answered 405), or of any server, which answers 206
\* to a request with a Range only.
HeadResponses ==
    IF pc = "probe" THEN {HeadOk, Status(405, "")} \cup FaultResponses
    ELSE {resp \in AnyResponses : resp.status_code # 206}

GetResponses == IF pc = "probe" THEN FallbackResponses ELSE AnyResponses

IsFault(resp) == resp.exc # "" \/ resp.status_code >= 400

\* The delay before the next probe round (line 160), in milliseconds.
probe_delay(resp, attempt) ==
    IF resp.retry_after # "" /\ isdigit(resp.retry_after)
    THEN float(resp.retry_after) * 1000
    ELSE Pow2(attempt) * 1000

\* Line 147: the statuses of a HEAD that make the probe fall back to GET.
blocks_head(status) == status \in {403, 405, 501}

\* Fault injection for C19: a retry of every failing status.
is_transient_any(status) == status >= 400

\* Line 158: the statuses the probe retries.
is_transient(status) == status \in {429, 500, 502, 503}

\* Lines 172-187: the ProbeResult fields fetch reads.
probe_supports_range(resp) ==
    IF resp.status_code = 206 /\ resp.content_range.slash
    THEN TRUE
    ELSE lower(resp.accept_ranges) = "bytes"

probe_content_length(resp) ==
    IF resp.status_code = 206 /\ resp.content_range.slash
    THEN IF resp.content_range.digits THEN resp.content_range.total ELSE NoneInt
    ELSE resp.content_length

\* What one probe round does with the response it ends with: that of the
\* HEAD, or of the GET after a HEAD of status head.
ProbeHandle(head, resp, nfaults, nrequests) ==
    /\ faults' = faults + nfaults
    /\ LET sent == [probe EXCEPT !.requests = @ + nrequests, !.head = head,
                                 !.resp = resp] IN
       IF resp.exc # ""
       THEN /\ outcome' = NetworkError(NoneInt)
            /\ pc' = "done"
            /\ probe' = [sent EXCEPT !.pc = "raised"]
       ELSE IF is_transient(resp.status_code) /\ probe.attempt < max_probe_retries
       THEN /\ probe' = [sent EXCEPT !.pc = "sleep",
                                     !.delay = probe_delay(resp, probe.attempt)]
            /\ UNCHANGED <<outcome, pc>>
       ELSE IF resp.status_code >= 400
       THEN /\ outcome' = NetworkError(resp.status_code)
            /\ pc' = "done"
            /\ probe' = [sent EXCEPT !.pc = "raised"]
       ELSE /\ probe' = [sent EXCEPT !.pc = "returned",
                                     !.supports_range = probe_supports_range(resp),
                                     !.content_length = probe_content_length(resp)]
            /\ pc' = IF pc = "probe" THEN "connecting" ELSE "probed"
            /\ UNCHANGED outcome

\* One round of the probe loop: HEAD, and GET when HEAD is refused.  Within
\* a fetch the failing responses are counted against the server's budget.
ProbeRound ==
    /\ pc \in {"probe", "probing"} /\ probe.pc = "request"
    /\ \E head \in HeadResponses :
           /\ pc = "probe" /\ head # HeadOk => faults < MaxFaults
           /\ IF head.exc = "" /\ blocks_head(head.status_code)
              THEN \E get \in GetResponses :
                       ProbeHandle(head.status_code, get,
                                   IF pc # "probe" THEN 0
                                   ELSE IF IsFault(get) THEN 2 ELSE 1, 2)
              ELSE ProbeHandle(head.status_code, head,
                               IF pc = "probe" /\ IsFault(head) THEN 1 ELSE 0, 1)
    /\ UNCHANGED <<request, server, disk, stats, sink, resume_offset, chunk_size,
                   total_size, offset, chunks, concurrency, workers, results,
                   completed_bytes, strm, result, sha256>>
    /\ UNCHANGED <<chunker, stealth, stealth_headers, added, mirror, optimizer,
                   bench, classifier>>

\* The sleep of a retried probe round ends; the next round begins.
ProbeWake ==
    /\ pc \in {"probe", "probing"} /\ probe.pc = "sleep"
    /\ probe' = [probe EXCEPT !.pc = "request", !.attempt = @ + 1, !.delay = 0,
                              !.head = 0, !.resp = Status(0, "")]
    /\ UNCHANGED <<request, server, disk, pc, stats, sink, outcome, resume_offset,
                   chunk_size, total_size, offset, chunks, concurrency, workers,
                   results, completed_bytes, strm, result, sha256, faults>>
    /\ UNCHANGED <<chunker, stealth, stealth_headers, added, mirror, optimizer,
                   bench, classifier>>

-----------------------------------------------------------------------------
(* performance/scheduler.py and core/engine.py: the parallel path           *)

NoResp == Status(0, "")

NoError == [tag |-> "", code |-> 0]

\* ChunkResult.error: "HTTP <code>", str(exc), or "Max retries exhausted".
HttpError(code) == [tag |-> "HTTP", code |-> code]
ExcError == [tag |-> "exc", code |-> 0]
Exhausted == [tag |-> "Max retries exhausted", code |-> 0]

ChunkResult(plan, data, success, error) ==
    [index |-> plan.index, start |-> plan.start, end |-> plan.end, data |-> data,
     success |-> success, error |-> error]

\* A _run_chunk task: waiting for a permit, with a request in flight,
\* asleep before a retry, or done; ended by an exception of the downloader
\* (raised), or cancelled.
Worker(state, attempt, requests, delay, resp) ==
    [pc |-> state, attempt |-> attempt, requests |-> requests, delay |-> delay,
     resp |-> resp]

\* The tasks that hold a permit of the semaphore.
Holders == {i \in 1 .. Len(workers) : workers[i].pc \in {"inflight", "sleep"}}

\* Fault injection for C5: a semaphore that never blocks.
permit_always == TRUE

\* Fault injection for C31: a semaphore whose permits are never given back.
permit_kept ==
    Cardinality({i \in 1 .. Len(workers) : workers[i].pc # "wait"}) < concurrency

\* asyncio.Semaphore(concurrency): a permit is free.
permit_free == Cardinality(Holders) < concurrency

\* Fault injection for C4: execute returns the results in completion order.
unsorted(seq) == seq

\* list.sort(key=lambda r: r.index): a stable insertion into index order.
RECURSIVE sort_by_index(_)
sort_by_index(seq) ==
    IF seq = <<>> THEN <<>>
    ELSE LET rest == sort_by_index(Tail(seq))
             before == SelectSeq(rest, LAMBDA r : r.index < Head(seq).index)
             after == SelectSeq(rest, LAMBDA r : r.index >= Head(seq).index)
         IN  before \o <<Head(seq)>> \o after

\* _run_chunk enters the semaphore and download_chunk sends its first
\* request.  asyncio wakes the waiters of a semaphore in the order in which
\* the tasks were created.
Acquire(i) ==
    /\ pc = "execute"
    /\ workers[i].pc = "wait"
    /\ \A j \in 1 .. i - 1 : workers[j].pc # "wait"
    /\ permit_free
    /\ workers' = [workers EXCEPT ![i] = Worker("inflight", 0, 1, 0, NoResp)]
    /\ UNCHANGED <<request, server, disk, pc, stats, sink, outcome, probe,
                   resume_offset, chunk_size, total_size, offset, chunks, concurrency,
                   results, completed_bytes, strm, result, sha256, faults>>
    /\ UNCHANGED <<chunker, stealth, stealth_headers, added, mirror, optimizer,
                   bench, classifier>>

\* optimizer.concurrency of the ConnectionOptimizer that _parallel_download
\* builds with initial = min(request.max_connections, 4).  execute reports a
\* throughput to it after every successful chunk and nothing reports a
\* throttle; a probe step changes nothing with fewer than 4 samples, and
\* nothing with 4, when the two groups it compares are the same samples.
\* No plan of the model has more than 4 chunks.
optimizer_concurrency == Min(request.max_connections, 4)

\* Fault injection for C35: progress reported from the count as it was
\* before the chunk was added.
progress_cb_stale(completed) ==
    [stats EXCEPT !.bytes_downloaded = completed_bytes + offset,
                  !.active_connections = optimizer_concurrency]

\* progress_cb(completed, total): the stats after the update.
progress_cb(completed) ==
    [stats EXCEPT !.bytes_downloaded = completed + offset,
                  !.active_connections = optimizer_concurrency]

\* download_chunk returned res to _run_chunk of task i (lines 92-105 of
\* scheduler.py), which releases its permit.
Finish(i, res, resp) ==
    /\ workers' = [workers EXCEPT ![i] = [@ EXCEPT !.pc = "done", !.delay = 0,
                                                   !.resp = resp]]
    /\ results' = Append(results, res)
    /\ IF res.success
       THEN /\ \E above \in BOOLEAN :
                   chunk_size' = feedback(chunk_size, chunker, TRUE, above)
            /\ chunker' = [chunker EXCEPT !.sampled = TRUE]
            /\ completed_bytes' = completed_bytes + Len(res.data)
            /\ stats' = progress_cb(completed_bytes + Len(res.data))
            /\ sink' = stats'
       ELSE UNCHANGED <<chunk_size, chunker, completed_bytes, stats, sink>>

\* download_chunk sleeps before its next attempt.
Sleep(i, resp, decision) ==
    /\ workers' = [workers EXCEPT ![i] = [@ EXCEPT !.pc = "sleep", !.resp = resp,
                                                   !.delay = decision.delay_sec]]
    /\ UNCHANGED <<chunk_size, chunker, results, completed_bytes, stats, sink>>

\* The body of a successful answer to Range: bytes=start-end.
RangeBody(plan) == Content(plan.start, plan.end)

\* The status and resp.content of the server's answer to the range request
\* of a chunk.
range_status == IF server.range_body = "full" THEN 200 ELSE 206

content(plan) ==
    CASE server.range_body = "range" -> RangeBody(plan)
      [] server.range_body = "full" -> Content(0, server.size - 1)
      [] server.range_body = "short" ->
             SubSeq(RangeBody(plan), 1, Len(RangeBody(plan)) - 1)

\* Fault injection for C32: the plan of a task made anew from the chunker's
\* current size when the task needs it.
planned_again(i) ==
    LET again == plan_chunks(chunk_size, total_size, offset)
    IN  IF i <= Len(again) THEN again[i] ELSE chunks[i]

\* The ChunkPlan that task i was created with.
planned(i) == chunks[i]

\* download_chunk (lines 453-494 of engine.py) receives the response to the
\* request of its current attempt.
ChunkHandle(i, resp) ==
    LET plan == planned(i)
        attempt == workers[i].attempt
    IN  IF resp.exc # ""
        THEN LET decision == classify_exception(resp.exc, attempt)
             IN  IF should_retry(decision, attempt)
                 THEN Sleep(i, resp, decision)
                 ELSE Finish(i, ChunkResult(plan, <<>>, FALSE, ExcError), resp)
        ELSE IF resp.status_code >= 400
        THEN LET decision == classify_status(resp.status_code, attempt)
             IN  IF should_retry(decision, attempt)
                 THEN Sleep(i, resp, decision)
                 ELSE Finish(i, ChunkResult(plan, <<>>, FALSE,
                                            HttpError(resp.status_code)), resp)
        ELSE Finish(i, ChunkResult(plan, content(plan), TRUE, NoError), resp)

ChunkResponse(i) ==
    /\ pc = "execute"
    /\ workers[i].pc = "inflight"
    /\ \/ /\ ChunkHandle(i, Status(range_status, ""))
          /\ UNCHANGED faults
       \/ \E resp \in FaultResponses :
              /\ faults < FaultBudget
              /\ faults' = faults + 1
              /\ ChunkHandle(i, resp)
    /\ UNCHANGED <<request, server, disk, pc, outcome, probe, resume_offset,
                   total_size, offset, chunks, concurrency, strm, result, sha256>>
    /\ UNCHANGED <<stealth, stealth_headers, added, mirror, optimizer,
                   bench, classifier>>

\* The sleep of download_chunk ends: the loop sends the next request, or
\* has run out of attempts (lines 450 and 496-505 of engine.py).
ChunkWake(i) ==
    /\ pc = "execute"
    /\ workers[i].pc = "sleep"
    /\ IF workers[i].attempt + 1 < request.max_retries + 1
       THEN /\ workers' = [workers EXCEPT ![i] =
                              Worker("inflight", @.attempt + 1, @.requests + 1, 0, NoResp)]
            /\ UNCHANGED <<chunk_size, chunker, results, completed_bytes, stats, sink>>
       ELSE Finish(i, ChunkResult(chunks[i], <<>>, FALSE, Exhausted), workers[i].resp)
    /\ UNCHANGED <<request, server, disk, pc, outcome, probe, resume_offset,
                   total_size, offset, chunks, concurrency, strm, result, sha256,
                   faults>>
    /\ UNCHANGED <<stealth, stealth_headers, added, mirror, optimizer,
                   bench, classifier>>

\* The downloader call of task i raises an exception that download_chunk
\* does not catch (it catches httpx.HTTPError): `async with semaphore`
\* releases the permit, the task ends with the exception, which gather
\* keeps (return_exceptions=True), and nothing is appended to results.
ChunkRaises(i) ==
    /\ pc = "execute"
    /\ workers[i].pc = "inflight"
    /\ workers' = [workers EXCEPT ![i] = [@ EXCEPT !.pc = "raised",
                                                   !.resp = Raised("RuntimeError")]]
    /\ UNCHANGED <<request, server, disk, pc, stats, sink, outcome, probe,
                   resume_offset, chunk_size, chunker, total_size, offset, chunks,
                   concurrency, results, completed_bytes, strm, result, sha256,
                   faults, stealth, stealth_headers, added, mirror, optimizer,
                   bench, classifier>>

\* The task of fetch is cancelled while execute awaits gather, with a
\* download in flight: gather cancels every task that has not ended, a
\* cancelled task leaves `async with semaphore` and so releases its
\* permit, and CancelledError leaves execute, _parallel_download and fetch
\* before the file is assembled.
Cancel ==
    /\ pc = "execute"
    /\ \E i \in 1 .. Len(workers) : workers[i].pc = "inflight"
    /\ workers' = [i \in 1 .. Len(workers) |->
                      IF workers[i].pc \in {"done", "raised"} THEN workers[i]
                      ELSE [workers[i] EXCEPT !.pc = "cancelled", !.delay = 0]]
    /\ outcome' = CancelledError
    /\ pc' = "done"
    /\ UNCHANGED <<request, server, disk, stats, sink, probe,
                   resume_offset, chunk_size, chunker, total_size, offset, chunks,
                   concurrency, results, completed_bytes, strm, result, sha256,
                   faults, stealth, stealth_headers, added, mirror, optimizer,
                   bench, classifier>>

\* f.seek(start); f.write(data) on a file holding `data`: a gap is a hole
\* of zero blocks.
WriteAt(file, start, bytes) ==
    [k \in 1 .. Max(Len(file), start + Len(bytes)) |->
        IF k > start /\ k <= start + Len(bytes) THEN bytes[k - start]
        ELSE IF k <= Len(file) THEN file[k]
        ELSE 0]

\* The loop of lines 520-523: the successful results written in list order.
RECURSIVE write_results(_, _)
write_results(file, rs) ==
    IF rs = <<>> THEN file
    ELSE write_results(IF Head(rs).success
                       THEN WriteAt(file, Head(rs).start, Head(rs).data)
                       ELSE file,
                       Tail(rs))

RECURSIVE sum_success(_)
sum_success(rs) ==
    IF rs = <<>> THEN 0
    ELSE (IF Head(rs).success THEN Len(Head(rs).data) ELSE 0) + sum_success(Tail(rs))

\* Fault injection for C2: the output file opened "r+b" whenever it exists.
open_keeping == IF disk.exists THEN disk.data ELSE <<>>

\* Fault injection for C11: the output file always opened "wb".
open_truncated == <<>>

\* Line 518: the content of the output file as opened for assembly, "r+b"
\* when resuming into an existing file and "wb" otherwise.
open_for_assembly == IF offset > 0 /\ disk.exists THEN disk.data ELSE <<>>

\* gather has returned: execute sorts and returns the results, and
\* _parallel_download assembles the file (lines 515-525 of engine.py).
Assemble ==
    /\ pc = "execute"
    /\ \A i \in 1 .. Len(workers) : workers[i].pc \in {"done", "raised"}
    /\ LET sorted == sort_by_index(results)
           opened == open_for_assembly
       IN  /\ results' = sorted
           /\ disk' = File(write_results(opened, sorted))
           /\ result' = sum_success(sorted) + offset
    /\ pc' = "verify"
    /\ UNCHANGED <<request, server, stats, sink, outcome, probe, resume_offset,
                   chunk_size, total_size, offset, chunks, concurrency, workers,
                   completed_bytes, strm, sha256, faults>>
    /\ UNCHANGED <<chunker, stealth, stealth_headers, added, mirror, optimizer,
                   bench, classifier>>

-----------------------------------------------------------------------------
(* core/engine.py: the single-stream path                                  *)

StreamIdle ==
    [pc |-> "idle", attempt |-> 0, requests |-> 0, downloaded |-> 0, delay |-> 0,
     resp |-> NoResp]

\* The answer to the streaming GET: the whole resource.
StreamOk == Response("", 200, "", "", IF server.sends_length THEN server.size ELSE NoneInt,
                     NoContentRange)

\* _stream_download sleeps before its next attempt.
StreamSleep(resp, decision) ==
    /\ strm' = [strm EXCEPT !.pc = "sleep", !.resp = resp, !.delay = decision.delay_sec]
    /\ UNCHANGED <<pc, outcome>>

\* _stream_download raises NetworkError.
StreamRaise(resp, code) ==
    /\ strm' = [strm EXCEPT !.pc = "raised", !.resp = resp]
    /\ outcome' = NetworkError(code)
    /\ pc' = "done"

\* The except clause of lines 578-586.
StreamExcept(resp) ==
    LET decision == classify_exception(resp.exc, strm.attempt)
    IN  IF should_retry(decision, strm.attempt)
        THEN StreamSleep(resp, decision)
        ELSE StreamRaise(resp, NoneInt)

\* Fault injection for C13: the output file opened "ab".
open_appending == IF disk.exists THEN disk.data ELSE <<>>

\* Line 559: the content of the output file as opened by _stream_download,
\* always "wb".
open_for_stream == <<>>

\* Fault injection for C39: the output file opened before the status of
\* the response is looked at.
stream_file_opened_first(resp) == File(open_for_stream)

\* Lines 543-559: the output file once the response to the streaming GET
\* is there.  A request that raised and a status of 400 or more leave the
\* with statement of line 559 unreached; any other response opens the file.
stream_file(resp) ==
    IF resp.exc = "" /\ resp.status_code < 400 THEN File(open_for_stream) ELSE disk

\* The response to the streaming GET arrives (lines 543-559): a status of
\* 400 or more is retried or raised; otherwise the output file is opened
\* for writing, which empties it.
StreamResponse ==
    /\ pc = "stream" /\ strm.pc = "request"
    /\ \/ /\ strm' = [strm EXCEPT !.pc = "body", !.resp = StreamOk]
          /\ stats' = [stats EXCEPT !.bytes_total =
                          IF StreamOk.content_length # NoneInt
                          THEN StreamOk.content_length ELSE @]
          /\ disk' = stream_file(StreamOk)
          /\ UNCHANGED <<pc, outcome, faults>>
       \/ \E resp \in FaultResponses :
              /\ faults < FaultBudget
              /\ faults' = faults + 1
              /\ disk' = stream_file(resp)
              /\ UNCHANGED stats
              /\ IF resp.exc # "" THEN StreamExcept(resp)
                 ELSE LET decision == classify_status(resp.status_code, strm.attempt)
                      IN  IF should_retry(decision, strm.attempt)
                          THEN StreamSleep(resp, decision)
                          ELSE StreamRaise(resp, resp.status_code)
    /\ UNCHANGED <<request, server, sink, probe, resume_offset, chunk_size, total_size,
                   offset, chunks, concurrency, workers, results, completed_bytes,
                   result, sha256>>
    /\ UNCHANGED <<chunker, stealth, stealth_headers, added, mirror, optimizer,
                   bench, classifier>>

\* One turn of the loop over resp.aiter_bytes (lines 560-572): the next
\* piece of the body is written and reported.
StreamBody ==
    /\ pc = "stream" /\ strm.pc = "body"
    /\ strm.downloaded < server.size
    /\ LET last == Min(strm.downloaded + STREAM_CHUNK, server.size)
           chunk == Content(strm.downloaded, last - 1)
       IN  /\ disk' = File(disk.data \o chunk)
           /\ strm' = [strm EXCEPT !.downloaded = @ + Len(chunk)]
           /\ stats' = [stats EXCEPT !.bytes_downloaded = strm.downloaded + Len(chunk)]
           /\ sink' = stats'
    /\ UNCHANGED <<request, server, pc, outcome, probe, resume_offset, chunk_size,
                   total_size, offset, chunks, concurrency, workers, results,
                   completed_bytes, result, sha256, faults>>
    /\ UNCHANGED <<chunker, stealth, stealth_headers, added, mirror, optimizer,
                   bench, classifier>>

\* The transfer breaks in the middle of the body: aiter_bytes raises.
StreamBodyError ==
    /\ pc = "stream" /\ strm.pc = "body"
    /\ faults < FaultBudget
    /\ faults' = faults + 1
    /\ \E resp \in {Raised("ReadTimeout"), Raised("ConnectError")} : StreamExcept(resp)
    /\ UNCHANGED <<request, server, disk, stats, sink, probe, resume_offset, chunk_size,
                   total_size, offset, chunks, concurrency, workers, results,
                   completed_bytes, result, sha256>>
    /\ UNCHANGED <<chunker, stealth, stealth_headers, added, mirror, optimizer,
                   bench, classifier>>

\* The body has ended: _stream_download returns downloaded (line 574).
StreamEnd ==
    /\ pc = "stream" /\ strm.pc = "body"
    /\ strm.downloaded = server.size
    /\ strm' = [strm EXCEPT !.pc = "returned"]
    /\ result' = strm.downloaded
    /\ pc' = "verify"
    /\ UNCHANGED <<request, server, disk, stats, sink, outcome, probe, resume_offset,
                   chunk_size, total_size, offset, chunks, concurrency, workers, results,
                   completed_bytes, sha256, faults>>
    /\ UNCHANGED <<chunker, stealth, stealth_headers, added, mirror, optimizer,
                   bench, classifier>>

\* The sleep ends: the loop of line 539 starts its next attempt with
\* downloaded = 0, or has run out of attempts (lines 588-591).
StreamWake ==
    /\ pc = "stream" /\ strm.pc = "sleep"
    /\ IF strm.attempt + 1 < request.max_retries + 1
       THEN /\ strm' = [strm EXCEPT !.pc = "request", !.attempt = @ + 1,
                                    !.requests = @ + 1, !.downloaded = 0,
                                    !.delay = 0, !.resp = NoResp]
            /\ UNCHANGED <<pc, outcome>>
       ELSE StreamRaise(strm.resp, NoneInt)
    /\ UNCHANGED <<request, server, disk, stats, sink, probe, resume_offset, chunk_size,
                   total_size, offset, chunks, concurrency, workers, results,
                   completed_bytes, result, sha256, faults>>
    /\ UNCHANGED <<chunker, stealth, stealth_headers, added, mirror, optimizer,
                   bench, classifier>>

-----------------------------------------------------------------------------
(* core/engine.py: fetch                                                   *)

\* FluxionEngine._resolve_stealth_headers(request): the context it builds,
\* for a profile name that get_profile knows.
_resolve_stealth_context(req) ==
    StealthContext(IF req.browser_profile # "" THEN get_profile(req.browser_profile)
                   ELSE NoProfile,
                   jar_of(req.cookies, <<>>), req.headers, req.referer)

\* Fault injection for C18: a fetch that takes an unknown profile name as
\* no profile and goes on to the probe.
FetchStartUnchecked ==
    /\ pc = "start"
    /\ stats' = TransferStats("RESOLVING", 0, NoneInt, "SMART")
    /\ sink' = stats'
    /\ stealth' = StealthContext(NoProfile, <<>>, request.headers, request.referer)
    /\ stealth_headers' = build_headers(stealth')
    /\ probe' = [ProbeIdle EXCEPT !.pc = "request"]
    /\ pc' = "probe"
    /\ UNCHANGED <<request, server, disk, outcome, resume_offset, chunk_size,
                   total_size, offset, chunks, concurrency, workers, results,
                   completed_bytes, strm, result, sha256, faults, chunker, added, mirror, optimizer,
                   bench, classifier>>

\* fetch is called: the first notification (lines 294-295), the stealth
\* headers (line 298), which an unknown profile name fails, then the probe.
FetchStart ==
    /\ pc = "start"
    /\ stats' = TransferStats("RESOLVING", 0, NoneInt, "SMART")
    /\ sink' = stats'
    /\ IF request.browser_profile # "" /\ unknown_profile(request.browser_profile)
       THEN /\ outcome' = StealthError
            /\ pc' = "done"
            /\ UNCHANGED <<probe, stealth, stealth_headers>>
       ELSE /\ stealth' = _resolve_stealth_context(request)
            /\ stealth_headers' = build_headers(stealth')
            /\ probe' = [ProbeIdle EXCEPT !.pc = "request"]
            /\ pc' = "probe"
            /\ UNCHANGED outcome
    /\ UNCHANGED <<request, server, disk, resume_offset, chunk_size,
                   total_size, offset, chunks, concurrency, workers, results,
                   completed_bytes, strm, result, sha256, faults, chunker, added, mirror, optimizer,
                   bench, classifier>>

\* stats.phase = phase; self._notify(on_progress, stats)
Notify(phase) ==
    /\ stats' = [stats EXCEPT !.phase = phase]
    /\ sink' = stats'

\* probe has returned its ProbeResult (line 199; its locals are gone) and
\* fetch reports CONNECTING (lines 301-303).  The count of failing responses
\* starts again for the download.
NotifyConnecting ==
    /\ pc = "connecting"
    /\ Notify("CONNECTING")
    /\ probe' = [ProbeIdle EXCEPT !.pc = "returned",
                                  !.supports_range = probe.supports_range,
                                  !.content_length = probe.content_length]
    /\ faults' = 0
    /\ pc' = "tls"
    /\ UNCHANGED <<request, server, disk, outcome, resume_offset, chunk_size,
                   total_size, offset, chunks, concurrency, workers, results,
                   completed_bytes, strm, result, sha256>>
    /\ UNCHANGED <<chunker, stealth, stealth_headers, added, mirror, optimizer,
                   bench, classifier>>

NotifyTLS ==
    /\ pc = "tls"
    /\ Notify("TLS")
    /\ pc' = "protocol_lock"
    /\ UNCHANGED <<request, server, disk, outcome, probe, resume_offset, chunk_size,
                   total_size, offset, chunks, concurrency, workers, results,
                   completed_bytes, strm, result, sha256, faults>>
    /\ UNCHANGED <<chunker, stealth, stealth_headers, added, mirror, optimizer,
                   bench, classifier>>

NotifyProtocolLock ==
    /\ pc = "protocol_lock"
    /\ Notify("PROTOCOL LOCK")
    /\ pc' = "resume"
    /\ UNCHANGED <<request, server, disk, outcome, probe, resume_offset, chunk_size,
                   total_size, offset, chunks, concurrency, workers, results,
                   completed_bytes, strm, result, sha256, faults>>
    /\ UNCHANGED <<chunker, stealth, stealth_headers, added, mirror, optimizer,
                   bench, classifier>>

\* Line 315.
supports_range == probe.supports_range /\ probe.content_length # NoneInt

\* Lines 319-320: resume as it stands after the silent downgrade.
resume_after_downgrade ==
    IF request.resume /\ ~supports_range /\ disk.exists THEN FALSE ELSE request.resume

\* Lines 323-325.
resume_offset_now ==
    IF resume_after_downgrade /\ disk.exists /\ supports_range
    THEN Len(disk.data) ELSE 0

\* Line 326: the output file is already complete.  A total of 0 is falsy.
already_complete ==
    /\ resume_after_downgrade /\ disk.exists /\ supports_range
    /\ probe.content_length # NoneInt /\ probe.content_length # 0
    /\ resume_offset_now >= probe.content_length

\* Fault injection for C14: the comparison of line 344 with >=.
parallel_path_from_twice ==
    /\ supports_range
    /\ probe.content_length # NoneInt /\ probe.content_length # 0
    /\ probe.content_length >= request.chunk_size * 2

\* Line 344.
parallel_path ==
    /\ supports_range
    /\ probe.content_length # NoneInt /\ probe.content_length # 0
    /\ probe.content_length > request.chunk_size * 2

\* Lines 314-338: the output file is complete already; fetch reports
\* COMPLETE and returns.
FetchAlreadyComplete ==
    /\ pc = "resume"
    /\ already_complete
    /\ request' = [request EXCEPT !.resume = resume_after_downgrade]
    /\ resume_offset' = resume_offset_now
    /\ Notify("COMPLETE")
    /\ outcome' = FetchResult(resume_offset_now, NoSha, TRUE)
    /\ pc' = "done"
    /\ UNCHANGED <<server, disk, probe, chunk_size, total_size, offset, chunks,
                   concurrency, workers, results, completed_bytes, strm, result,
                   sha256, faults>>
    /\ UNCHANGED <<chunker, stealth, stealth_headers, added, mirror, optimizer,
                   bench, classifier>>

\* Lines 314-350 and 430-444, and lines 75-87 of scheduler.py: the parallel
\* path is chosen; the chunker, the optimizer and the scheduler are built,
\* the plan is made and one task per chunk is created.
FetchParallel ==
    /\ pc = "resume"
    /\ ~already_complete
    /\ parallel_path
    /\ request' = [request EXCEPT !.resume = resume_after_downgrade]
    /\ resume_offset' = resume_offset_now
    /\ stats' = [stats EXCEPT !.phase = "STREAM", !.bytes_total = probe.content_length,
                              !.flux_mode = "PARALLEL"]
    /\ chunk_size' = request.chunk_size
    /\ chunker' = AdaptiveChunker(MIN_CHUNK, MAX_CHUNK)
    /\ total_size' = probe.content_length
    /\ offset' = resume_offset_now
    /\ chunks' = plan_chunks(request.chunk_size, probe.content_length, resume_offset_now)
    /\ concurrency' = suggest_concurrency(probe.content_length, OPT_MINIMUM,
                                          request.max_connections)
    /\ workers' = [i \in 1 .. Len(chunks') |-> Worker("wait", 0, 0, 0, NoResp)]
    /\ results' = <<>>
    /\ completed_bytes' = 0
    /\ pc' = "execute"
    /\ UNCHANGED <<server, disk, sink, outcome, probe, strm, result, sha256, faults>>
    /\ UNCHANGED <<stealth, stealth_headers, added, mirror, optimizer,
                   bench, classifier>>

\* Lines 314-356 and 539-543: the single path is chosen and
\* _stream_download sends its first request.
FetchSingle ==
    /\ pc = "resume"
    /\ ~already_complete
    /\ ~parallel_path
    /\ request' = [request EXCEPT !.resume = resume_after_downgrade]
    /\ resume_offset' = resume_offset_now
    /\ stats' = [stats EXCEPT !.phase = "STREAM", !.bytes_total = probe.content_length,
                              !.flux_mode = "SINGLE"]
    /\ strm' = [StreamIdle EXCEPT !.pc = "request", !.requests = 1]
    /\ pc' = "stream"
    /\ UNCHANGED <<server, disk, sink, outcome, probe, chunk_size, total_size, offset,
                   chunks, concurrency, workers, results, completed_bytes, result,
                   sha256, faults>>
    /\ UNCHANGED <<chunker, stealth, stealth_headers, added, mirror, optimizer,
                   bench, classifier>>

\* Lines 361-363.
Verify ==
    /\ pc = "verify"
    /\ Notify("VERIFY")
    /\ sha256' = compute_sha256(disk.data)
    /\ pc' = "complete"
    /\ UNCHANGED <<request, server, disk, outcome, probe, resume_offset, chunk_size,
                   total_size, offset, chunks, concurrency, workers, results,
                   completed_bytes, strm, result, faults>>
    /\ UNCHANGED <<chunker, stealth, stealth_headers, added, mirror, optimizer,
                   bench, classifier>>

\* Fault injection for C7: fetch returns without reporting COMPLETE.
CompleteSilent ==
    /\ pc = "complete"
    /\ outcome' = FetchResult(result, sha256, resume_offset > 0)
    /\ pc' = "done"
    /\ UNCHANGED <<request, server, disk, stats, sink, probe, resume_offset, chunk_size,
                   total_size, offset, chunks, concurrency, workers, results,
                   completed_bytes, strm, result, sha256, faults>>
    /\ UNCHANGED <<chunker, stealth, stealth_headers, added, mirror, optimizer,
                   bench, classifier>>

\* Lines 365-377.
Complete ==
    /\ pc = "complete"
    /\ Notify("COMPLETE")
    /\ outcome' = FetchResult(result, sha256, resume_offset > 0)
    /\ pc' = "done"
    /\ UNCHANGED <<request, server, disk, probe, resume_offset, chunk_size,
                   total_size, offset, chunks, concurrency, workers, results,
                   completed_bytes, strm, result, sha256, faults>>
    /\ UNCHANGED <<chunker, stealth, stealth_headers, added, mirror, optimizer,
                   bench, classifier>>

-----------------------------------------------------------------------------
(* The engine: one fetch of one resource.                                  *)

\* fetch is entered: nothing has been done.
FetchEntry ==
    /\ pc = "start"
    /\ stats = NoStats
    /\ sink = NoStats
    /\ outcome = Pending
    /\ probe = ProbeIdle
    /\ resume_offset = 0
    /\ chunk_size = 0
    /\ chunker = NoChunker
    /\ total_size = NoneInt
    /\ offset = 0
    /\ chunks = <<>>
    /\ concurrency = 0
    /\ workers = <<>>
    /\ results = <<>>
    /\ completed_bytes = 0
    /\ strm = StreamIdle
    /\ result = 0
    /\ sha256 = NoSha
    /\ faults = 0
    /\ stealth = StealthContext(NoProfile, <<>>, <<>>, NoReferer)
    /\ stealth_headers = <<>>
    /\ added = NoCall
    /\ mirror = NoMirror
    /\ optimizer = NoOptimizer
    /\ bench = NoBench
    /\ classifier = NoClassify

Init ==
    /\ request \in Requests
    /\ server \in Servers
    /\ Fits(request, server)
    /\ disk \in OldFiles(server.size)
    /\ FetchEntry

Next ==
    \/ FetchStart
    \/ ProbeRound
    \/ ProbeWake
    \/ NotifyConnecting
    \/ NotifyTLS
    \/ NotifyProtocolLock
    \/ FetchAlreadyComplete
    \/ FetchParallel
    \/ FetchSingle
    \/ \E i \in 1 .. Len(workers) : Acquire(i)
    \/ \E i \in 1 .. Len(workers) : ChunkResponse(i)
    \/ \E i \in 1 .. Len(workers) : ChunkWake(i)
    \/ Assemble
    \/ StreamResponse
    \/ StreamBody
    \/ StreamBodyError
    \/ StreamEnd
    \/ StreamWake
    \/ Verify
    \/ Complete

Spec == Init /\ [][Next]_vars

\* fetch with resume=True against a server that supports ranges, over an
\* output file that is what an earlier fetch of the resource wrote with its
\* last bytes cut off.
ResumeInit ==
    /\ Init
    /\ request.resume
    /\ server.accept_ranges
    /\ disk.exists
    /\ Len(disk.data) <= server.size
    /\ disk.data = Content(0, Len(disk.data) - 1)

SpecResume == ResumeInit /\ [][Next]_vars

\* fetch with resume=True over an output file that exists, against any
\* server.
ExistingInit ==
    /\ Init
    /\ request.resume
    /\ disk.exists

SpecExisting == ExistingInit /\ [][Next]_vars

\* The parallel path of fetch against a server of any range_body, with a
\* downloader that may raise and a caller that may cancel the fetch.
ExecuteInit ==
    /\ request \in Requests
    /\ request.chunk_size = MiB \div 2
    /\ request.max_retries <= 1
    /\ request.browser_profile = ""
    /\ request.scheme = "https"
    /\ server \in [size : BigSizes, accept_ranges : {TRUE}, sends_length : {TRUE},
                    range_body : {"range", "full", "short"}]
    /\ disk \in OldFiles(server.size)
    /\ FetchEntry

ExecuteNext ==
    \/ FetchStart
    \/ ProbeRound
    \/ ProbeWake
    \/ NotifyConnecting
    \/ NotifyTLS
    \/ NotifyProtocolLock
    \/ FetchAlreadyComplete
    \/ FetchParallel
    \/ \E i \in 1 .. Len(workers) : Acquire(i)
    \/ \E i \in 1 .. Len(workers) : ChunkResponse(i)
    \/ \E i \in 1 .. Len(workers) : ChunkWake(i)
    \/ \E i \in 1 .. Len(workers) : ChunkRaises(i)
    \/ Cancel
    \/ Assemble
    \/ Verify
    \/ Complete

SpecExecute == ExecuteInit /\ [][ExecuteNext]_vars

\* A fresh fetch of a big resource from a server that sends the ranges.
RunInit ==
    /\ ExecuteInit
    /\ ~request.resume
    /\ disk = NoFile
    /\ server.range_body = "range"

\* The same fetch when nobody cancels it.  The event loop runs a task that
\* is ready, a request is answered and a sleep ends: a step that can be
\* taken is taken in the end.
RunNext ==
    \/ FetchStart
    \/ ProbeRound
    \/ ProbeWake
    \/ NotifyConnecting
    \/ NotifyTLS
    \/ NotifyProtocolLock
    \/ FetchParallel
    \/ \E i \in 1 .. Len(workers) : Acquire(i)
    \/ \E i \in 1 .. Len(workers) : ChunkResponse(i)
    \/ \E i \in 1 .. Len(workers) : ChunkWake(i)
    \/ \E i \in 1 .. Len(workers) : ChunkRaises(i)
    \/ Assemble
    \/ Verify
    \/ Complete

SpecRun == RunInit /\ [][RunNext]_vars /\ WF_vars(RunNext)

-----------------------------------------------------------------------------
(* The planner alone: AdaptiveChunker.plan_chunks on every chunk size,     *)
(* total size and offset within the bounds.                                *)

ChunkerInit ==
    /\ chunk_size \in 1 .. PlanMaxChunk
    /\ total_size \in 0 .. PlanMaxSize
    /\ offset \in 0 .. PlanMaxSize
    /\ chunks = <<>>
    /\ chunker = AdaptiveChunker(MIN_CHUNK, MAX_CHUNK)
    /\ pc = "chunker"
    /\ request = [chunk_size |-> chunk_size, max_retries |-> 0, max_connections |-> 1,
                  resume |-> FALSE, browser_profile |-> "", headers |-> <<>>,
                  scheme |-> "https",
                  cookies |-> <<>>, referer |-> NoReferer]
    /\ stealth = StealthContext(NoProfile, <<>>, <<>>, NoReferer)
    /\ stealth_headers = <<>>
    /\ added = NoCall
    /\ mirror = NoMirror
    /\ optimizer = NoOptimizer
    /\ bench = NoBench
    /\ classifier = NoClassify
    /\ server = [size |-> total_size, accept_ranges |-> TRUE, sends_length |-> TRUE,
                 range_body |-> "range"]
    /\ disk = NoFile
    /\ stats = NoStats
    /\ sink = NoStats
    /\ outcome = Pending
    /\ probe = ProbeIdle
    /\ resume_offset = 0
    /\ concurrency = 0
    /\ workers = <<>>
    /\ results = <<>>
    /\ completed_bytes = 0
    /\ strm = StreamIdle
    /\ result = 0
    /\ sha256 = NoSha
    /\ faults = 0

\* chunks = self._chunker.plan_chunks(total_size, offset)
PlanChunks ==
    /\ pc = "chunker"
    /\ chunks' = plan_chunks(chunk_size, total_size, offset)
    /\ pc' = "planned"
    /\ UNCHANGED <<request, server, disk, stats, sink, outcome, probe, resume_offset,
                   chunk_size, total_size, offset, concurrency, workers, results,
                   completed_bytes, strm, result, sha256, faults>>
    /\ UNCHANGED <<chunker, stealth, stealth_headers, added, mirror, optimizer,
                   bench, classifier>>

ChunkerNext == PlanChunks

SpecChunker == ChunkerInit /\ [][ChunkerNext]_vars

-----------------------------------------------------------------------------
(* The stealth context alone, in the order of _resolve_stealth_headers:    *)
(* cookies are added to a jar by add_raw, then a StealthContext is made of *)
(* the jar and a profile, custom headers and a referer of the sets below,  *)
(* and its headers are built.                                              *)

\* The parts of one raw cookie text, at most.
MaxParts == 2

\* A profile whose sources name the same headers: a base header that the
\* sec-fetch headers repeat, and base and sec-fetch headers named as the
\* User-Agent, the Referer and the Cookie are.
OverlappingProfile ==
    BrowserProfile("overlapping", <<"UA/overlapping">>,
                   << <<"Accept", <<"base">> >>, <<"X-Both", <<"base">> >>,
                      <<"User-Agent", <<"base">> >>, <<"Cookie", <<"base">> >> >>,
                   << <<"X-Both", <<"sec">> >>, <<"Referer", <<"sec">> >> >>)

StealthProfiles == {NoProfile, _PROFILES("chrome"), OverlappingProfile}

\* custom_headers: header names of the other sources, and one in another
\* case, which is another key of the dict.
CustomHeaderDicts ==
    { <<>>,
      << <<"Accept", <<"custom">> >> >>,
      << <<"accept", <<"custom">> >> >>,
      << <<"User-Agent", <<"custom">> >>, <<"Cookie", <<"custom">> >> >>,
      << <<"Referer", <<"custom">> >>, <<"X-Both", <<"custom">> >> >> }

Referers == {NoReferer, <<"https://example.com">>}

CookieNames == {<<"a">>, <<"b">>}

\* A value may hold a "=" of its own.
CookieValues == {<<"1">>, <<"v", "=", "2">>}

\* The parts of a raw text: a cookie, or a part that is none (no "=", or no
\* name before it).
CookieParts ==
    [junk : {FALSE}, name : CookieNames, value : CookieValues]
        \cup [junk : {TRUE}, name : {<<"x">>, <<"=", "1">>}, value : {<<>>}]

RawParts == UNION {[1 .. n -> CookieParts] : n \in 0 .. MaxParts}

\* The text of one part: name=value, with or without spaces around.
part_text(part, spaced) ==
    IF part.junk THEN part.name
    ELSE IF spaced
         THEN <<" ">> \o part.name \o <<" ", "=", " ">> \o part.value \o <<" ">>
         ELSE part.name \o <<"=">> \o part.value

\* The raw text of the parts, ";" between them.
RECURSIVE raw_text(_, _)
raw_text(parts, spaced) ==
    IF parts = <<>> THEN <<>>
    ELSE part_text(Head(parts), spaced)
             \o (IF Len(parts) > 1 THEN <<";">> ELSE <<>>)
             \o raw_text(Tail(parts), spaced)

\* The cookies among the parts, as <<name, value>>.
RECURSIVE cookies_of(_)
cookies_of(parts) ==
    IF parts = <<>> THEN <<>>
    ELSE (IF Head(parts).junk THEN <<>>
          ELSE << <<Head(parts).name, Head(parts).value>> >>)
             \o cookies_of(Tail(parts))

StealthInit ==
    /\ stealth = StealthContext(NoProfile, <<>>, <<>>, NoReferer)
    /\ stealth_headers = <<>>
    /\ added = NoCall
    /\ mirror = NoMirror
    /\ optimizer = NoOptimizer
    /\ bench = NoBench
    /\ classifier = NoClassify
    /\ pc = "stealth"
    /\ request = [chunk_size |-> 1, max_retries |-> 0, max_connections |-> 1,
                  resume |-> FALSE, browser_profile |-> "", headers |-> <<>>,
                  scheme |-> "https",
                  cookies |-> <<>>, referer |-> NoReferer]
    /\ server = [size |-> 0, accept_ranges |-> TRUE, sends_length |-> TRUE,
                 range_body |-> "range"]
    /\ disk = NoFile
    /\ stats = NoStats
    /\ sink = NoStats
    /\ outcome = Pending
    /\ probe = ProbeIdle
    /\ resume_offset = 0
    /\ chunk_size = 0
    /\ chunker = NoChunker
    /\ total_size = NoneInt
    /\ offset = 0
    /\ chunks = <<>>
    /\ concurrency = 0
    /\ workers = <<>>
    /\ results = <<>>
    /\ completed_bytes = 0
    /\ strm = StreamIdle
    /\ result = 0
    /\ sha256 = NoSha
    /\ faults = 0

\* cookie_jar.add_raw(raw)
AddRaw ==
    /\ pc = "stealth"
    /\ \E parts \in RawParts, spaced \in BOOLEAN :
           LET raw == raw_text(parts, spaced) IN
           /\ stealth' = [stealth EXCEPT !.cookie_jar = add_raw(@, raw)]
           /\ added' = [pairs |-> cookies_of(parts), raw |-> raw]
    /\ UNCHANGED <<request, server, disk, pc, stats, sink, outcome, probe,
                   resume_offset, chunk_size, chunker, total_size, offset, chunks,
                   concurrency, workers, results, completed_bytes, strm, result,
                   sha256, faults, stealth_headers, mirror, optimizer, bench,
                   classifier>>

\* ctx = StealthContext(profile, cookie_jar, custom_headers, referer);
\* headers = ctx.build_headers()
BuildHeaders ==
    /\ pc = "stealth"
    /\ \E profile \in StealthProfiles, custom_headers \in CustomHeaderDicts,
          referer \in Referers :
           stealth' = StealthContext(profile, stealth.cookie_jar, custom_headers, referer)
    /\ stealth_headers' = build_headers(stealth')
    /\ pc' = "built"
    /\ UNCHANGED <<request, server, disk, stats, sink, outcome, probe,
                   resume_offset, chunk_size, chunker, total_size, offset, chunks,
                   concurrency, workers, results, completed_bytes, strm, result,
                   sha256, faults, added, mirror, optimizer,
                   bench, classifier>>

StealthNext ==
    \/ AddRaw
    \/ BuildHeaders

SpecStealth == StealthInit /\ [][StealthNext]_vars

-----------------------------------------------------------------------------
(* The probe alone: probe(url) called on its own, against any server.      *)

ProbeInit ==
    /\ pc = "probing"
    /\ probe = [ProbeIdle EXCEPT !.pc = "request"]
    /\ request = [chunk_size |-> 1, max_retries |-> 0, max_connections |-> 1,
                  resume |-> FALSE, browser_profile |-> "", headers |-> <<>>,
                  scheme |-> "https",
                  cookies |-> <<>>, referer |-> NoReferer]
    /\ server = [size |-> 0, accept_ranges |-> TRUE, sends_length |-> TRUE,
                 range_body |-> "range"]
    /\ disk = NoFile
    /\ stats = NoStats
    /\ sink = NoStats
    /\ outcome = Pending
    /\ resume_offset = 0
    /\ chunk_size = 0
    /\ chunker = NoChunker
    /\ total_size = NoneInt
    /\ offset = 0
    /\ chunks = <<>>
    /\ concurrency = 0
    /\ workers = <<>>
    /\ results = <<>>
    /\ completed_bytes = 0
    /\ strm = StreamIdle
    /\ result = 0
    /\ sha256 = NoSha
    /\ faults = 0
    /\ stealth = StealthContext(NoProfile, <<>>, <<>>, NoReferer)
    /\ stealth_headers = <<>>
    /\ added = NoCall
    /\ mirror = NoMirror
    /\ optimizer = NoOptimizer
    /\ bench = NoBench
    /\ classifier = NoClassify

ProbeNext ==
    \/ ProbeRound
    \/ ProbeWake

SpecProbe == ProbeInit /\ [][ProbeNext]_vars

-----------------------------------------------------------------------------
(* core/engine.py: mirror, up to its call of fetch.  A URL is its place in *)
(* the list urls.                                                          *)

\* The result of one _probe_mirror task as gather returns it: not yet
\* there, the tuple (mirror_url, latency_ms), None after a NetworkError, or
\* the exception object of another exception.
ProbeTask(state, url, latency_ms) == [state |-> state, url |-> url, latency_ms |-> latency_ms]

\* probes = [r for r in results if isinstance(r, tuple)]
tuples(gathered) == SelectSeq(gathered, LAMBDA r : r.state = "tuple")

\* Fault injection for C21: the surviving probes left in the order of urls.
sort_by_latency_not(probes) == probes

\* probes.sort(key=lambda x: x[1]): a stable insertion into latency order.
RECURSIVE sort_by_latency(_)
sort_by_latency(probes) ==
    IF probes = <<>> THEN <<>>
    ELSE LET rest == sort_by_latency(Tail(probes))
             before == SelectSeq(rest, LAMBDA r : r.latency_ms < Head(probes).latency_ms)
             after == SelectSeq(rest, LAMBDA r : r.latency_ms >= Head(probes).latency_ms)
         IN  before \o <<Head(probes)>> \o after

MirrorInit ==
    /\ pc = "mirror"
    /\ \E n \in 0 .. MaxUrls :
           mirror = [pc |-> "gather", probes |-> [u \in 1 .. n |-> ProbeTask("pending", u, 0)],
                     best_url |-> 0]
    /\ probe = ProbeIdle
    /\ request = [chunk_size |-> 1, max_retries |-> 0, max_connections |-> 1,
                  resume |-> FALSE, browser_profile |-> "", headers |-> <<>>,
                  scheme |-> "https",
                  cookies |-> <<>>, referer |-> NoReferer]
    /\ server = [size |-> 0, accept_ranges |-> TRUE, sends_length |-> TRUE,
                 range_body |-> "range"]
    /\ disk = NoFile
    /\ stats = NoStats
    /\ sink = NoStats
    /\ outcome = Pending
    /\ resume_offset = 0
    /\ chunk_size = 0
    /\ chunker = NoChunker
    /\ total_size = NoneInt
    /\ offset = 0
    /\ chunks = <<>>
    /\ concurrency = 0
    /\ workers = <<>>
    /\ results = <<>>
    /\ completed_bytes = 0
    /\ strm = StreamIdle
    /\ result = 0
    /\ sha256 = NoSha
    /\ faults = 0
    /\ stealth = StealthContext(NoProfile, <<>>, <<>>, NoReferer)
    /\ stealth_headers = <<>>
    /\ added = NoCall
    /\ optimizer = NoOptimizer
    /\ bench = NoBench
    /\ classifier = NoClassify

\* One _probe_mirror task ends: self.probe returned, raised NetworkError,
\* or raised something else.  The tasks run together and end in any order.
MirrorProbe(u) ==
    /\ pc = "mirror" /\ mirror.pc = "gather"
    /\ mirror.probes[u].state = "pending"
    /\ \/ \E latency_ms \in 1 .. MaxLatency :
              mirror' = [mirror EXCEPT !.probes[u] = ProbeTask("tuple", u, latency_ms)]
       \/ mirror' = [mirror EXCEPT !.probes[u] = ProbeTask("None", u, 0)]
       \/ mirror' = [mirror EXCEPT !.probes[u] = ProbeTask("exception", u, 0)]
    /\ UNCHANGED <<request, server, disk, pc, stats, sink, outcome, probe,
                   resume_offset, chunk_size, chunker, total_size, offset, chunks,
                   concurrency, workers, results, completed_bytes, strm, result,
                   sha256, faults, stealth, stealth_headers, added, optimizer, bench,
                   classifier>>

\* gather has every result: mirror raises, or calls fetch for the URL of
\* the first of the sorted probes.
MirrorFetch ==
    /\ pc = "mirror" /\ mirror.pc = "gather"
    /\ \A u \in 1 .. Len(mirror.probes) : mirror.probes[u].state # "pending"
    /\ LET probes == sort_by_latency(tuples(mirror.probes)) IN
       IF probes = <<>>
       THEN /\ outcome' = NetworkError(NoneInt)
            /\ pc' = "done"
            /\ mirror' = [mirror EXCEPT !.pc = "raised"]
       ELSE /\ mirror' = [mirror EXCEPT !.pc = "fetch", !.best_url = probes[1].url]
            /\ pc' = "done"
            /\ UNCHANGED outcome
    /\ UNCHANGED <<request, server, disk, stats, sink, probe,
                   resume_offset, chunk_size, chunker, total_size, offset, chunks,
                   concurrency, workers, results, completed_bytes, strm, result,
                   sha256, faults, stealth, stealth_headers, added, optimizer, bench,
                   classifier>>

MirrorNext ==
    \/ \E u \in 1 .. Len(mirror.probes) : MirrorProbe(u)
    \/ MirrorFetch

SpecMirror == MirrorInit /\ [][MirrorNext]_vars

-----------------------------------------------------------------------------
(* performance/optimizer.py: a ConnectionOptimizer on its own               *)
(* (SpecOptimizer).                                                        *)

\* _Sample(concurrency, throughput, timestamp): the optimizer reads
\* throughput only, which is what the model keeps of a sample.
_Sample(throughput) == [throughput |-> throughput]

\* The throughputs that are reported.
Throughputs == {80, 100}

\* _adapt reads the last 8 samples, or the first 4 and the last 4 of fewer
\* than 8: _history is kept to its last 8 samples.
ADAPT_WINDOW == 8

\* ConnectionOptimizer.__init__(initial, minimum, maximum).  probed and
\* since_throttle are the caller's view: whether the last call ran a probe
\* step, and how many probe steps (0, 1, or 2 for more or for no throttle
\* report yet) ran since the last throttle report.
ConnectionOptimizer(initial, minimum, maximum) ==
    [pc |-> "ready", _concurrency |-> initial, _min |-> minimum, _max |-> maximum,
     _history |-> <<>>, _throttle_count |-> 0, probed |-> FALSE,
     since_throttle |-> 2]

RECURSIVE throughput_sum(_)
throughput_sum(samples) ==
    IF samples = <<>> THEN 0
    ELSE Head(samples).throughput + throughput_sum(Tail(samples))

\* improvement = (avg_recent - avg_older) / max(avg_older, 1.0), compared to
\* 0.05 and to -0.1 on the sums of the two groups of four:
\* 1 for an increase, -1 for a decrease, 0 for neither.
trend(recent, older) ==
    LET r == throughput_sum(recent)
        o == throughput_sum(older)
    IN  IF (r - o) * 20 > Max(o, 4) THEN 1
        ELSE IF (r - o) * 10 < 0 - Max(o, 4) THEN -1
        ELSE 0

\* ConnectionOptimizer._adapt()
_adapt(opt) ==
    LET h == opt._history
        n == Len(h)
    IN  IF n < 4 THEN opt
        ELSE LET recent == SubSeq(h, n - 3, n)
                 older == IF n >= 8 THEN SubSeq(h, n - 7, n - 4) ELSE SubSeq(h, 1, 4)
             IN  IF opt._throttle_count > 0
                 THEN [opt EXCEPT !._throttle_count = Max(0, opt._throttle_count - 1)]
                 ELSE IF trend(recent, older) = 1
                 THEN [opt EXCEPT !._concurrency = Min(opt._concurrency + 1, opt._max)]
                 ELSE IF trend(recent, older) = -1
                 THEN [opt EXCEPT !._concurrency = Max(opt._concurrency - 1, opt._min)]
                 ELSE opt

\* The last ADAPT_WINDOW samples of a history.
last_samples(h) ==
    IF Len(h) <= ADAPT_WINDOW THEN h ELSE SubSeq(h, Len(h) - ADAPT_WINDOW + 1, Len(h))

\* ConnectionOptimizer.report_throughput(bps); due says whether
\* probe_interval has passed since the last probe step.
report_throughput(opt, bps, due) ==
    LET sampled == [opt EXCEPT !._history =
                        last_samples(Append(opt._history, _Sample(bps)))]
    IN  IF due
        THEN [_adapt(sampled) EXCEPT !.probed = TRUE,
                                     !.since_throttle = Min(opt.since_throttle + 1, 2)]
        ELSE [sampled EXCEPT !.probed = FALSE]

\* Fault injection for C24: report_throttle without the floor at _min.
report_throttle_unfloored(opt) ==
    [opt EXCEPT !._throttle_count = opt._throttle_count + 1,
                !._concurrency = opt._concurrency \div 2,
                !.probed = FALSE,
                !.since_throttle = 0]

\* ConnectionOptimizer.report_throttle()
report_throttle(opt) ==
    [opt EXCEPT !._throttle_count = opt._throttle_count + 1,
                !._concurrency = Max(opt._min, opt._concurrency \div 2),
                !.probed = FALSE,
                !.since_throttle = 0]

\* No fetch runs: the variables of fetch, idle, while a component is
\* exercised on its own.
NoFetch ==
    /\ probe = ProbeIdle
    /\ request = [chunk_size |-> 1, max_retries |-> 0, max_connections |-> 1,
                  resume |-> FALSE, browser_profile |-> "", headers |-> <<>>,
                  scheme |-> "https",
                  cookies |-> <<>>, referer |-> NoReferer]
    /\ server = [size |-> 0, accept_ranges |-> TRUE, sends_length |-> TRUE,
                 range_body |-> "range"]
    /\ disk = NoFile
    /\ stats = NoStats
    /\ sink = NoStats
    /\ outcome = Pending
    /\ resume_offset = 0
    /\ chunk_size = 0
    /\ chunker = NoChunker
    /\ total_size = NoneInt
    /\ offset = 0
    /\ chunks = <<>>
    /\ concurrency = 0
    /\ workers = <<>>
    /\ results = <<>>
    /\ completed_bytes = 0
    /\ strm = StreamIdle
    /\ result = 0
    /\ sha256 = NoSha
    /\ faults = 0
    /\ stealth = StealthContext(NoProfile, <<>>, <<>>, NoReferer)
    /\ stealth_headers = <<>>
    /\ added = NoCall
    /\ mirror = NoMirror

OptimizerInit ==
    /\ pc = "optimizer"
    /\ \E minimum \in 1 .. MaxOptMin : \E maximum \in minimum .. MaxOptMax :
       \E initial \in minimum .. maximum :
           optimizer = ConnectionOptimizer(initial, minimum, maximum)
    /\ NoFetch
    /\ bench = NoBench
    /\ classifier = NoClassify

ReportThroughput ==
    /\ pc = "optimizer"
    /\ \E bps \in Throughputs : \E due \in BOOLEAN :
           optimizer' = report_throughput(optimizer, bps, due)
    /\ UNCHANGED <<request, server, disk, pc, stats, sink, outcome, probe,
                   resume_offset, chunk_size, chunker, total_size, offset, chunks,
                   concurrency, workers, results, completed_bytes, strm, result,
                   sha256, faults, stealth, stealth_headers, added, mirror, bench,
                   classifier>>

ReportThrottle ==
    /\ pc = "optimizer"
    /\ optimizer._throttle_count < MaxThrottles
    /\ optimizer' = report_throttle(optimizer)
    /\ UNCHANGED <<request, server, disk, pc, stats, sink, outcome, probe,
                   resume_offset, chunk_size, chunker, total_size, offset, chunks,
                   concurrency, workers, results, completed_bytes, strm, result,
                   sha256, faults, stealth, stealth_headers, added, mirror, bench,
                   classifier>>

OptimizerNext ==
    \/ ReportThroughput
    \/ ReportThrottle

SpecOptimizer == OptimizerInit /\ [][OptimizerNext]_vars

-----------------------------------------------------------------------------
(* performance/optimizer.py: suggest_concurrency alone (SpecSuggest).      *)

\* The content lengths that are asked about: unknown, empty, and one block
\* below, at and above each limit of the size buckets.
ContentLengths ==
    {NoneInt, 0, 1, MiB - 1, MiB, MiB + 1, 10 * MiB - 1, 10 * MiB, 10 * MiB + 1,
     100 * MiB - 1, 100 * MiB, 100 * MiB + 1}

SuggestInit ==
    /\ pc = "optimizer"
    /\ \E minimum \in 1 .. MaxOptMin : \E maximum \in minimum .. MaxSuggestMax :
           optimizer = ConnectionOptimizer(minimum, minimum, maximum)
    /\ NoFetch
    /\ bench = NoBench
    /\ classifier = NoClassify

\* optimizer.suggest_concurrency(content_length): the length that was asked
\* about is kept in total_size and the answer in concurrency.
Suggest ==
    /\ pc = "optimizer"
    /\ \E content_length \in ContentLengths :
           /\ total_size' = content_length
           /\ concurrency' = suggest_concurrency(content_length, optimizer._min,
                                                 optimizer._max)
    /\ UNCHANGED <<request, server, disk, pc, stats, sink, outcome, probe,
                   resume_offset, chunk_size, chunker, offset, chunks,
                   workers, results, completed_bytes, strm, result,
                   sha256, faults, stealth, stealth_headers, added, mirror,
                   optimizer, bench, classifier>>

SuggestNext == Suggest

SpecSuggest == SuggestInit /\ [][SuggestNext]_vars

-----------------------------------------------------------------------------
(* performance/retry.py: classify_status alone (SpecClassifier).           *)

\* The values of base_backoff and max_backoff in ms: the defaults and a
\* small one.
BackoffsMs == {2, BASE_BACKOFF_MS, MAX_BACKOFF_MS}

\* Every status code of three digits.
StatusCodes == 100 .. 599

ClassifierInit ==
    /\ pc = "classifier"
    /\ \E base_backoff \in BackoffsMs : \E max_backoff \in BackoffsMs :
           /\ base_backoff <= max_backoff
           /\ classifier = RetryClassifier(MAX_RETRIES, base_backoff, max_backoff)
    /\ NoFetch
    /\ optimizer = NoOptimizer
    /\ bench = NoBench

\* classifier.classify_status(status_code, attempt): the call and the
\* decision it returned are kept.  classify_status writes no field of the
\* classifier, so one call of each classifier is followed.
Classify ==
    /\ pc = "classifier"
    /\ classifier.pc = "ready"
    /\ \E status_code \in StatusCodes : \E attempt \in 0 .. MaxAttempt :
           classifier' = [classifier EXCEPT
                             !.pc = "classified",
                             !.status_code = status_code,
                             !.attempt = attempt,
                             !.decision = classify_status_of(classifier, status_code,
                                                             attempt)]
    /\ UNCHANGED <<request, server, disk, pc, stats, sink, outcome, probe,
                   resume_offset, chunk_size, chunker, total_size, offset, chunks,
                   concurrency, workers, results, completed_bytes, strm, result,
                   sha256, faults, stealth, stealth_headers, added, mirror,
                   optimizer, bench>>

ClassifierNext == Classify

SpecClassifier == ClassifierInit /\ [][ClassifierNext]_vars

-----------------------------------------------------------------------------
(* core/engine.py: bench (SpecBench).                                      *)

\* httpx.Response.is_success
is_success(resp) == resp.exc = "" /\ 200 <= resp.status_code /\ resp.status_code < 300

\* What a HEAD of bench is answered with: success, a redirect, a server
\* error, or an httpx.HTTPError raised by the transport.
BenchResponses == {Status(200, ""), Status(301, ""), Status(503, ""), Raised("ConnectError")}

\* BenchResult, its two counters.
BenchResult(requests_completed, requests_failed) ==
    [requests_completed |-> requests_completed, requests_failed |-> requests_failed]

\* bench(url, iterations) is entered: latencies = [], failures = 0.  heads is
\* the sequence of answers that the HEAD requests sent so far were given,
\* and gets the number of GET requests sent.
BenchInit ==
    /\ pc = "bench"
    /\ \E iterations \in 0 .. MaxIterations :
           bench = [pc |-> "head", iterations |-> iterations, latencies |-> <<>>,
                    failures |-> 0, heads |-> <<>>, gets |-> 0,
                    result |-> BenchResult(0, 0)]
    /\ NoFetch
    /\ optimizer = NoOptimizer
    /\ classifier = NoClassify

\* Fault injection for C28: one round of the loop that counts a failure
\* only when the HEAD raises.
bench_head_raised_only(b, resp, elapsed_ms) ==
    IF resp.exc # ""
    THEN [b EXCEPT !.heads = Append(b.heads, resp), !.failures = b.failures + 1]
    ELSE IF is_success(resp)
    THEN [b EXCEPT !.heads = Append(b.heads, resp),
                   !.latencies = Append(b.latencies, elapsed_ms)]
    ELSE [b EXCEPT !.heads = Append(b.heads, resp)]

\* One round of the loop of bench: a HEAD, answered with resp after
\* elapsed_ms.
bench_head(b, resp, elapsed_ms) ==
    IF resp.exc # ""
    THEN [b EXCEPT !.heads = Append(b.heads, resp), !.failures = b.failures + 1]
    ELSE IF is_success(resp)
    THEN [b EXCEPT !.heads = Append(b.heads, resp),
                   !.latencies = Append(b.latencies, elapsed_ms)]
    ELSE [b EXCEPT !.heads = Append(b.heads, resp), !.failures = b.failures + 1]

BenchHead ==
    /\ pc = "bench" /\ bench.pc = "head"
    /\ Len(bench.heads) < bench.iterations
    /\ \E resp \in BenchResponses :
       \E elapsed_ms \in IF is_success(resp) THEN 1 .. MaxLatency ELSE {0} :
           bench' = bench_head(bench, resp, elapsed_ms)
    /\ UNCHANGED <<request, server, disk, pc, stats, sink, outcome, probe,
                   resume_offset, chunk_size, chunker, total_size, offset, chunks,
                   concurrency, workers, results, completed_bytes, strm, result,
                   sha256, faults, stealth, stealth_headers, added, mirror,
                   optimizer, classifier>>

\* The loop is over: bench returns at once when no HEAD succeeded, and
\* goes on to measure the throughput otherwise.
BenchLatencies ==
    /\ pc = "bench" /\ bench.pc = "head"
    /\ Len(bench.heads) >= bench.iterations
    /\ IF bench.latencies = <<>>
       THEN /\ bench' = [bench EXCEPT !.pc = "returned",
                                      !.result = BenchResult(0, bench.failures)]
            /\ pc' = "done"
       ELSE /\ bench' = [bench EXCEPT !.pc = "get"]
            /\ UNCHANGED pc
    /\ UNCHANGED <<request, server, disk, stats, sink, outcome, probe,
                   resume_offset, chunk_size, chunker, total_size, offset, chunks,
                   concurrency, workers, results, completed_bytes, strm, result,
                   sha256, faults, stealth, stealth_headers, added, mirror,
                   optimizer, classifier>>

\* The ranged GET that measures the throughput is answered or raises, and
\* bench returns.
BenchThroughput ==
    /\ pc = "bench" /\ bench.pc = "get"
    /\ bench' = [bench EXCEPT !.pc = "returned", !.gets = bench.gets + 1,
                              !.result = BenchResult(Len(bench.latencies),
                                                     bench.failures)]
    /\ pc' = "done"
    /\ UNCHANGED <<request, server, disk, stats, sink, outcome, probe,
                   resume_offset, chunk_size, chunker, total_size, offset, chunks,
                   concurrency, workers, results, completed_bytes, strm, result,
                   sha256, faults, stealth, stealth_headers, added, mirror,
                   optimizer, classifier>>

BenchNext ==
    \/ BenchHead
    \/ BenchLatencies
    \/ BenchThroughput

SpecBench == BenchInit /\ [][BenchNext]_vars

-----------------------------------------------------------------------------
(* Properties of the planner (SpecChunker).                                *)

\* The byte positions a chunk covers.
Covered(plan) == plan.start .. plan.end

\* C1: for every chunk size >= 1, total size >= 0 and offset >= 0 the plan
\* is an ordered partition of [offset, total): every chunk has start <= end
\* and index equal to its position, each chunk begins right after the one
\* before it, the chunks are pairwise disjoint and cover exactly the
\* positions offset .. total - 1, every chunk but the last has the chunk
\* size, and the plan is empty when total = 0 or offset >= total.
PlanIsPartition ==
    pc = "planned" =>
        /\ \A i \in 1 .. Len(chunks) :
               /\ chunks[i].start <= chunks[i].end
               /\ chunks[i].index = i - 1
        /\ \A i \in 1 .. Len(chunks) - 1 :
               /\ chunks[i + 1].start = chunks[i].end + 1
               /\ size(chunks[i]) = chunk_size
        /\ \A i, j \in 1 .. Len(chunks) :
               i # j => Covered(chunks[i]) \cap Covered(chunks[j]) = {}
        /\ UNION {Covered(chunks[i]) : i \in 1 .. Len(chunks)} = offset .. total_size - 1
        /\ (total_size = 0 \/ offset >= total_size) => chunks = <<>>

\* A plan of several chunks from a positive offset whose last chunk is short.
PlanIsPartitionWitness ==
    /\ pc = "planned"
    /\ offset > 0
    /\ Len(chunks) >= 2
    /\ size(chunks[Len(chunks)]) < chunk_size

-----------------------------------------------------------------------------
(* Properties of fetch (Spec).                                             *)

\* fetch has left the download step on the parallel path.
Assembled == pc \in {"verify", "complete", "done"} /\ stats.flux_mode = "PARALLEL"

AllSucceeded ==
    \A k \in 1 .. Len(results) :
        results[k].success /\ results[k].data = Content(results[k].start, results[k].end)

\* C2: after a parallel fetch from offset 0 in which every chunk succeeded
\* with exactly the server's bytes of its range, the output file is the
\* server's content, in whatever order the chunks completed; and the file
\* is not written while a worker has not finished.
AssemblyIsExact ==
    /\ [](Assembled /\ offset = 0 /\ AllSucceeded
              => disk = File(Content(0, server.size - 1)))
    /\ [][pc = "execute" /\ (\E i \in 1 .. Len(workers) : workers[i].pc # "done")
              => disk' = disk]_vars

\* Three chunks downloaded by two workers, one of them after a retry, over a
\* stale output file, and assembled.
AssemblyIsExactWitness ==
    /\ pc = "verify" /\ stats.flux_mode = "PARALLEL"
    /\ offset = 0 /\ AllSucceeded
    /\ Len(results) >= 3 /\ concurrency >= 2
    /\ \E i \in 1 .. Len(workers) : workers[i].requests >= 2
    /\ disk = File(Content(0, server.size - 1))

\* C3: when a chunk's result is a failure, fetch ends with an error and
\* returns no FetchResult.
FailedChunkIsFatal ==
    (\E k \in 1 .. Len(results) : ~results[k].success) => outcome.kind # "result"

\* C4: the list execute returns is in strictly increasing order of chunk
\* index, in whatever order the chunks completed.
ResultsSorted ==
    Assembled =>
        \A j, k \in 1 .. Len(results) : j < k => results[j].index < results[k].index

\* execute has returned the results of three chunks run by two workers.
ResultsSortedWitness ==
    /\ pc = "verify" /\ stats.flux_mode = "PARALLEL"
    /\ Len(results) >= 3 /\ concurrency >= 2
    /\ \E k \in 1 .. Len(results) : ~results[k].success

\* C5: while execute runs, at most K downloader calls are in flight, where
\* K is suggest_concurrency(total_size) as computed when execute started.
InFlightBounded ==
    pc = "execute" =>
        /\ Cardinality(Holders) <= concurrency
        /\ concurrency = suggest_concurrency(total_size, OPT_MINIMUM,
                                             request.max_connections)

\* Every permit is taken while a task still waits for one.
InFlightBoundedWitness ==
    /\ pc = "execute"
    /\ concurrency >= 2
    /\ Cardinality(Holders) = concurrency
    /\ \E i \in 1 .. Len(workers) : workers[i].pc = "wait"

\* C6: bytes_downloaded as delivered to the progress sink never decreases
\* during a fetch, on the parallel and on the single-stream path.
BytesMonotone == [][sink'.bytes_downloaded >= sink.bytes_downloaded]_vars

\* The order of the phases; "none" is before the first notification.
PhaseRank(phase) ==
    CASE phase = "none" -> 0
      [] phase = "RESOLVING" -> 1
      [] phase = "CONNECTING" -> 2
      [] phase = "TLS" -> 3
      [] phase = "PROTOCOL LOCK" -> 4
      [] phase = "STREAM" -> 5
      [] phase = "VERIFY" -> 6
      [] phase = "COMPLETE" -> 7

\* C7: the phases the sink observes follow the order Resolving, Connecting,
\* TLS, ProtocolLock, Stream, Verify, Complete, never a phase after a later
\* one; and when fetch returns a result the last phase observed is Complete.
PhasesInOrder ==
    /\ [][PhaseRank(sink'.phase) >= PhaseRank(sink.phase)]_vars
    /\ [](outcome.kind = "result" => sink.phase = "COMPLETE")

\* fetch has returned after a download.
PhasesInOrderWitness ==
    /\ pc = "done" /\ outcome.kind = "result"
    /\ stats.flux_mode # "SMART"
    /\ outcome.bytes_downloaded > 0
    /\ sink.phase = "COMPLETE"

\* The statuses C8 names.
NeverRetried == {400, 401, 403, 404, 405, 410, 451}

IsNeverRetried(resp) == resp.exc = "" /\ resp.status_code \in NeverRetried

\* C8: a response with a status in {400, 401, 403, 404, 405, 410, 451} is
\* never retried, for every max_retries: the chunk downloader has returned a
\* failed ChunkResult "HTTP <status>" and the single-stream download has
\* raised NetworkError with that status, with no request after the one that
\* got the response (one request per attempt).
FatalStatusNotRetried ==
    /\ \A i \in 1 .. Len(workers) :
           /\ workers[i].pc # "wait" => workers[i].requests = workers[i].attempt + 1
           /\ IsNeverRetried(workers[i].resp) =>
                  /\ workers[i].pc = "done"
                  /\ \E k \in 1 .. Len(results) :
                         /\ results[k].index = chunks[i].index
                         /\ ~results[k].success
                         /\ results[k].error = HttpError(workers[i].resp.status_code)
    /\ strm.pc # "idle" => strm.requests = strm.attempt + 1
    /\ IsNeverRetried(strm.resp) =>
           /\ strm.pc = "raised"
           /\ outcome = NetworkError(strm.resp.status_code)

\* Both downloads have met a 404 on their first request under a request
\* that allows retries.
FatalStatusNotRetriedWitness ==
    /\ request.max_retries >= 2
    /\ \/ \E i \in 1 .. Len(workers) :
              IsNeverRetried(workers[i].resp) /\ workers[i].requests = 1
       \/ IsNeverRetried(strm.resp) /\ strm.requests = 1

\* A failure that the classifier retries.
RetryableFailure(resp) == resp.exc # "" \/ resp.status_code \in _RETRYABLE_STATUS

\* C9: under a request with max_retries = m whose every attempt ends in a
\* retryable failure, the chunk downloader returns its failed ChunkResult
\* and the single-stream download raises NetworkError after exactly m + 1
\* requests.
RetriesFollowRequest ==
    /\ \A i \in 1 .. Len(workers) :
           workers[i].pc = "done" /\ RetryableFailure(workers[i].resp)
               => workers[i].requests = request.max_retries + 1
    /\ strm.pc = "raised" /\ RetryableFailure(strm.resp)
           => strm.requests = request.max_retries + 1

\* The delay C10 asks for before the retry of a 429.
retry_after_or(resp, backoff) ==
    IF isdigit(resp.retry_after) THEN float(resp.retry_after) * 1000 ELSE backoff

\* C10: before the retry of a 429 the probe, the chunk downloader and the
\* single-stream download sleep exactly Retry-After seconds when the header
\* is numeric, and the exponential backoff delay otherwise.
RetryAfterHonoured ==
    /\ probe.pc = "sleep" /\ probe.resp.status_code = 429
           => probe.delay = retry_after_or(probe.resp, Pow2(probe.attempt) * 1000)
    /\ \A i \in 1 .. Len(workers) :
           workers[i].pc = "sleep" /\ workers[i].resp.status_code = 429
               => workers[i].delay =
                      retry_after_or(workers[i].resp,
                                     classify_status(429, workers[i].attempt).delay_sec)
    /\ strm.pc = "sleep" /\ strm.resp.status_code = 429
           => strm.delay = retry_after_or(strm.resp,
                                          classify_status(429, strm.attempt).delay_sec)

-----------------------------------------------------------------------------
(* Properties of a resumed fetch (SpecResume).                             *)

NoneFailed == \A k \in 1 .. Len(results) : results[k].success

\* C11: a fetch with resume=True over the truncated output of a completed
\* fetch, against the same range-supporting server, leaves when it returns
\* the file a single-shot fetch writes: the server's content.
ResumeIdempotent ==
    pc = "done" /\ outcome.kind = "result" /\ NoneFailed
        => disk = File(Content(0, server.size - 1))

\* A resumed parallel download from a positive offset has returned.
ResumeIdempotentWitness ==
    /\ pc = "done" /\ outcome.kind = "result" /\ NoneFailed
    /\ stats.flux_mode = "PARALLEL"
    /\ resume_offset > 0 /\ resume_offset < server.size
    /\ Len(results) >= 2
    /\ disk = File(Content(0, server.size - 1))

-----------------------------------------------------------------------------
(* Properties of the resume decision and of the mode selection (Spec).     *)

\* fetch is at its resume decision with resume=True, an output file at
\* least as long as the resource, and a server that supports ranges.
FileAlreadyWhole ==
    /\ pc = "resume"
    /\ request.resume /\ disk.exists /\ supports_range
    /\ Len(disk.data) >= probe.content_length

\* C12: when resume is true, the output file exists, the server supports
\* ranges and the file is at least total_size long, fetch returns at once a
\* FetchResult with resumed=True, the last phase observed is Complete, no
\* download request is sent and the output file is left as it was.
AlreadyCompleteReturns ==
    [][FileAlreadyWhole =>
           /\ pc' = "done"
           /\ outcome'.kind = "result" /\ outcome'.resumed
           /\ sink'.phase = "COMPLETE"
           /\ strm' = strm /\ workers' = workers
           /\ disk' = disk]_vars

-----------------------------------------------------------------------------
(* Properties of a fetch with resume=True over an existing file            *)
(* (SpecExisting).                                                         *)

\* The probe has returned and reports no range support.
NoRangeSupport == probe.pc = "returned" /\ ~supports_range

\* C13: when resume is true and the output file exists but the probe
\* reports no range support, the resume request raises no error: fetch goes
\* on with resume=False on the single-stream path from byte 0, an error can
\* only come from the download itself, and when fetch returns the file is
\* the server's content.
DowngradeIsSilent ==
    NoRangeSupport =>
        /\ pc \in {"connecting", "tls", "protocol_lock", "resume", "stream", "verify",
                    "complete", "done"}
        /\ pc \in {"stream", "verify", "complete", "done"} =>
               /\ ~request.resume
               /\ resume_offset = 0
               /\ stats.flux_mode = "SINGLE"
               /\ workers = <<>>
        /\ outcome.kind = "error" => strm.pc = "raised"
        /\ outcome.kind = "result" =>
               /\ disk = File(Content(0, server.size - 1))
               /\ outcome.bytes_downloaded = server.size
               /\ ~outcome.resumed

\* The whole resource has replaced a file that existed, without ranges.
DowngradeIsSilentWitness ==
    /\ NoRangeSupport
    /\ pc = "done" /\ outcome.kind = "result"
    /\ ~request.resume
    /\ server.size >= 2
    /\ disk = File(Content(0, server.size - 1))

-----------------------------------------------------------------------------
(* Properties of the mode selection (Spec).                                *)

\* The probe reports range support and a total size of more than twice the
\* chunk size of the request.
ProbeAllowsParallel ==
    /\ probe.supports_range
    /\ probe.content_length # NoneInt
    /\ probe.content_length > 2 * request.chunk_size

\* C14: a fetch that downloads takes the Parallel path exactly when the
\* probe reports range support, total_size is known and total_size >
\* 2 * request.chunk_size, and the Single path otherwise; the flux mode in
\* the stats, and in what the progress sink is given once the download has
\* begun, is that of the path taken.
ModeFollowsProbe ==
    /\ [][pc = "resume" /\ pc' \in {"execute", "stream"}
              => /\ pc' = "execute" <=> ProbeAllowsParallel
                 /\ pc' = "stream" <=> ~ProbeAllowsParallel]_vars
    /\ [](/\ pc = "execute" => stats.flux_mode = "PARALLEL" /\ strm.pc = "idle"
          /\ pc = "stream" => stats.flux_mode = "SINGLE" /\ workers = <<>>
          /\ sink.flux_mode = "PARALLEL" => workers # <<>> /\ strm.pc = "idle"
          /\ sink.flux_mode = "SINGLE" => workers = <<>> /\ strm.pc # "idle"
          /\ sink.phase = "VERIFY" =>
                 sink.flux_mode = IF workers # <<>> THEN "PARALLEL" ELSE "SINGLE")

\* A resource of exactly twice the chunk size from a server with ranges has
\* gone the Single path and been verified.
ModeFollowsProbeWitness ==
    /\ probe.supports_range
    /\ probe.content_length = 2 * request.chunk_size
    /\ sink.phase = "VERIFY" /\ sink.flux_mode = "SINGLE"

-----------------------------------------------------------------------------
(* Properties of the chunker the engine builds (Spec).                     *)

\* C15: min <= current chunk size <= max holds for an AdaptiveChunker at
\* all times: from its construction, also by the engine from
\* request.chunk_size, and after every sequence of feedback calls.
ChunkSizeBounded ==
    chunker # NoChunker =>
        chunker.min <= chunk_size /\ chunk_size <= chunker.max

-----------------------------------------------------------------------------
(* Properties of the stealth headers of fetch (Spec).                      *)

\* The request names a profile, and the name in lower case is none of the
\* four.
NamesUnknownProfile ==
    /\ request.browser_profile # ""
    /\ lower(request.browser_profile) \notin {"chrome", "firefox", "edge", "safari"}

\* C18: a fetch whose request names a browser profile outside chrome,
\* firefox, edge and safari, compared without regard to case, fails with a
\* StealthError; it issues no request, neither of the probe nor of a
\* download, and the output file is neither created nor changed.
UnknownProfileFails ==
    /\ [](NamesUnknownProfile =>
              /\ pc \in {"start", "done"}
              /\ pc = "done" => outcome = StealthError
              /\ probe = ProbeIdle /\ strm = StreamIdle /\ workers = <<>>)
    /\ [][NamesUnknownProfile => disk' = disk]_vars

\* The fetch of a request with the profile LYNX has failed, next to a file
\* that was there before.
UnknownProfileFailsWitness ==
    /\ NamesUnknownProfile
    /\ pc = "done" /\ outcome = StealthError
    /\ disk.exists /\ disk.data # <<>>

-----------------------------------------------------------------------------
(* Properties of the stealth context (SpecStealth).                        *)

\* The value the last pair of that name gives, among pairs that name it.
LastValue(pairs, name) ==
    pairs[CHOOSE i \in 1 .. Len(pairs) :
              /\ pairs[i][1] = name
              /\ \A j \in i + 1 .. Len(pairs) : pairs[j][1] # name][2]

\* The header names build_headers may give, and the value the order of the
\* sources gives each: the latest source that names it.
SourcedNames(ctx) ==
    keys(ctx.profile.headers) \cup keys(ctx.profile.sec_headers)
        \cup (IF ctx.profile # NoProfile THEN {"User-Agent"} ELSE {})
        \cup (IF ctx.referer # NoReferer THEN {"Referer"} ELSE {})
        \cup keys(ctx.custom_headers)
        \cup (IF ctx.cookie_jar # <<>> THEN {"Cookie"} ELSE {})

ValueByPrecedence(ctx, name) ==
    IF name = "Cookie" /\ ctx.cookie_jar # <<>> THEN as_header(ctx.cookie_jar)
    ELSE IF name \in keys(ctx.custom_headers) THEN LastValue(ctx.custom_headers, name)
    ELSE IF name = "Referer" /\ ctx.referer # NoReferer THEN ctx.referer
    ELSE IF name = "User-Agent" /\ ctx.profile # NoProfile THEN ctx.profile.user_agent
    ELSE IF name \in keys(ctx.profile.sec_headers)
         THEN LastValue(ctx.profile.sec_headers, name)
    ELSE LastValue(ctx.profile.headers, name)

\* C16: build_headers applies its sources in the order profile base
\* headers, profile sec-fetch headers, profile User-Agent, Referer, custom
\* headers, Cookie, a later source overwriting an earlier one for the same
\* header name: the built headers name exactly the headers some source
\* names, each once, with the value of the latest source naming it; so a
\* custom header overrides the profile's header of that name, and a jar
\* that is not empty overrides a custom Cookie header.
BuildHeadersPrecedence ==
    pc = "built" =>
        /\ keys(stealth_headers) = SourcedNames(stealth)
        /\ \A i \in 1 .. Len(stealth_headers) :
               /\ stealth_headers[i][2] = ValueByPrecedence(stealth, stealth_headers[i][1])
               /\ \A j \in 1 .. Len(stealth_headers) :
                      stealth_headers[j][1] = stealth_headers[i][1] => j = i

\* Headers are built of a profile, a referer, custom User-Agent and Cookie
\* headers and a jar with a cookie: every source has something to say.
BuildHeadersPrecedenceWitness ==
    /\ pc = "built"
    /\ stealth.profile = OverlappingProfile
    /\ stealth.referer # NoReferer
    /\ {"User-Agent", "Cookie"} \subseteq keys(stealth.custom_headers)
    /\ stealth.cookie_jar # <<>>

\* The text name=value of the cookies from the i-th on, "; " between them.
RECURSIVE CookieText(_, _)
CookieText(jar, i) ==
    IF i > Len(jar) THEN <<>>
    ELSE (IF i > 1 THEN <<";", " ">> ELSE <<>>)
             \o jar[i][1] \o <<"=">> \o jar[i][2] \o CookieText(jar, i + 1)

\* The index of the first pair of that name.
FirstWrite(pairs, name) ==
    CHOOSE i \in 1 .. Len(pairs) :
        pairs[i][1] = name /\ \A j \in 1 .. i - 1 : pairs[j][1] # name

\* after is before with the pairs written to it: one cookie per distinct
\* name, the old names where they were and the new ones behind them in the
\* order of their first write, each name with the value of its last write.
IsLastWriteWins(before, pairs, after) ==
    /\ \A i, j \in 1 .. Len(after) : after[i][1] = after[j][1] => i = j
    /\ keys(after) = keys(before) \cup keys(pairs)
    /\ Len(after) >= Len(before)
    /\ \A i \in 1 .. Len(before) : after[i][1] = before[i][1]
    /\ \A i, j \in Len(before) + 1 .. Len(after) :
           i < j => FirstWrite(pairs, after[i][1]) < FirstWrite(pairs, after[j][1])
    /\ \A i \in 1 .. Len(after) :
           after[i][2] = IF after[i][1] \in keys(pairs) THEN LastValue(pairs, after[i][1])
                         ELSE before[i][2]

\* C17: after any sequence of cookie additions the built headers hold at
\* most one Cookie header; its value is the name=value pairs joined by
\* "; ", one pair per distinct cookie name in the order the names were first
\* added, each name with the value of its last write.
OneCookieHeader ==
    /\ [][pc = "stealth" /\ pc' = "stealth" =>
              IsLastWriteWins(stealth.cookie_jar, added'.pairs, stealth'.cookie_jar)]_vars
    /\ [](pc = "built" =>
              /\ Cardinality({i \in 1 .. Len(stealth_headers) :
                                  stealth_headers[i][1] = "Cookie"}) <= 1
              /\ stealth.cookie_jar # <<>> =>
                     \E i \in 1 .. Len(stealth_headers) :
                         /\ stealth_headers[i][1] = "Cookie"
                         /\ stealth_headers[i][2] = CookieText(stealth.cookie_jar, 1))

\* Headers are built after a cookie was written twice, in one raw text, to
\* a jar of two cookies.
OneCookieHeaderWitness ==
    /\ pc = "built"
    /\ Len(stealth.cookie_jar) = 2
    /\ Len(added.pairs) = 2 /\ added.pairs[1][1] = added.pairs[2][1]
    /\ added.pairs[1][2] # added.pairs[2][2]
    /\ "Cookie" \in keys(stealth_headers)

-----------------------------------------------------------------------------
(* Properties of the probe (SpecProbe).                                    *)

\* A probe round ends in this step, with a response and not a transport
\* error.
RoundAnswered == probe.pc = "request" /\ probe'.pc # "request" /\ probe'.resp.exc = ""

\* C19: probe retries a response of status 429, 500, 502 or 503 at most 3
\* times, so there are at most 4 rounds; when the last round still ends
\* with such a status, or any round ends, after the fallback, with another
\* status >= 400, probe raises a NetworkError with that status code; a
\* status >= 400 outside the four is never retried.
ProbeRetriesTransient ==
    /\ [](probe.attempt <= 3)
    /\ [][RoundAnswered =>
              LET status == probe'.resp.status_code
                  retried == probe'.pc = "sleep"
                  raised == probe'.pc = "raised"
              IN  /\ retried <=> status \in {429, 500, 502, 503} /\ probe.attempt < 3
                  /\ raised <=> status >= 400 /\ ~retried
                  /\ raised => pc' = "done" /\ outcome' = NetworkError(status)]_vars

\* The fourth round, a GET after a refused HEAD, ended with a transient
\* status, and probe raised it.
ProbeRetriesTransientWitness ==
    /\ pc = "done" /\ probe.pc = "raised"
    /\ probe.attempt = 3
    /\ probe.head = 403 /\ probe.resp.status_code = 502
    /\ outcome = NetworkError(502)

\* C20: probe issues a GET with Range: bytes=0-0 exactly when the HEAD
\* response has status 403, 405 or 501; the result marks ranges supported
\* exactly when the final response carries Accept-Ranges: bytes or has
\* status 206; and for a 206 response with a Content-Range ending in /N the
\* content_length is N, not the Content-Length of the partial body.
ProbeFallbackAndRanges ==
    /\ [][RoundAnswered =>
              probe'.requests - probe.requests =
                  IF probe'.head \in {403, 405, 501} THEN 2 ELSE 1]_vars
    /\ [](probe.pc = "returned" =>
              /\ probe.supports_range <=>
                     \/ lower(probe.resp.accept_ranges) = "bytes"
                     \/ probe.resp.status_code = 206
              /\ probe.resp.status_code = 206 /\ probe.resp.content_range.slash
                     /\ probe.resp.content_range.digits
                 => probe.content_length = probe.resp.content_range.total)

-----------------------------------------------------------------------------
(* Properties of mirror (SpecMirror).                                      *)

\* The URLs whose probe succeeded.
Succeeded == {u \in 1 .. Len(mirror.probes) : mirror.probes[u].state = "tuple"}

\* C21: mirror fetches from a URL whose probe succeeded and whose latency
\* is the least among the URLs whose probe succeeded; a URL whose probe
\* failed is never fetched; when every probe fails mirror raises a
\* NetworkError and fetches nothing.
MirrorFetchesFastest ==
    /\ mirror.best_url # 0 =>
           /\ mirror.best_url \in Succeeded
           /\ \A u \in Succeeded :
                  mirror.probes[mirror.best_url].latency_ms <= mirror.probes[u].latency_ms
    /\ pc = "done" =>
           IF Succeeded = {}
           THEN mirror.pc = "raised" /\ mirror.best_url = 0 /\ outcome.kind = "error"
           ELSE mirror.pc = "fetch" /\ mirror.best_url # 0 /\ outcome = Pending

\* The last of three URLs is fetched: the first failed its probe, the
\* second was slower.
MirrorFetchesFastestWitness ==
    /\ pc = "done" /\ mirror.best_url = 3
    /\ mirror.probes[1].state = "None"
    /\ mirror.probes[2].state = "tuple"
    /\ mirror.probes[2].latency_ms > mirror.probes[3].latency_ms

-----------------------------------------------------------------------------
(* Properties of the parallel path against any server, with a downloader   *)
(* that may raise and a fetch that may be cancelled (SpecExecute).         *)

\* The blocks of a successful result are in the output file at its start.
OnDisk(res) ==
    /\ disk.exists
    /\ Len(disk.data) >= res.start + Len(res.data)
    /\ SubSeq(disk.data, res.start + 1, res.start + Len(res.data)) = res.data

\* C22: when a fetch is cancelled while chunk downloads are in flight, all
\* in-flight workers stop, every permit of the semaphore is released, and
\* the bytes of the chunks that had completed are in the output file on
\* disk, for a later fetch to resume from.
CancelKeepsCompletedChunks ==
    outcome = CancelledError =>
        /\ \A i \in 1 .. Len(workers) : workers[i].pc \in {"done", "raised", "cancelled"}
        /\ Holders = {}
        /\ \A k \in 1 .. Len(results) : results[k].success => OnDisk(results[k])

\* C23: every ChunkResult that download_chunk returns with success carries
\* exactly end - start + 1 bytes, whatever the server answers to the range
\* request (also the whole resource with status 200, or a short body);
\* every failed ChunkResult carries an error that is not empty, and no
\* bytes.
ChunkResultSized ==
    \A k \in 1 .. Len(results) :
        IF results[k].success
        THEN Len(results[k].data) = results[k].end - results[k].start + 1
        ELSE results[k].error # NoError /\ results[k].data = <<>>

\* C30: execute never raises and returns exactly one ChunkResult for every
\* planned chunk; a chunk whose downloader call raised an exception is in
\* the returned list as a failed ChunkResult, never missing.
ExecuteReturnsEveryChunk ==
    pc = "verify" =>
        /\ Len(results) = Len(chunks)
        /\ \A i \in 1 .. Len(chunks) :
               \E k \in 1 .. Len(results) :
                   /\ results[k].index = chunks[i].index
                   /\ workers[i].pc = "raised" => ~results[k].success


-----------------------------------------------------------------------------
(* Properties of the optimizer (SpecOptimizer).                            *)

\* C24: an optimizer built with minimum <= initial <= maximum keeps
\* minimum <= concurrency <= maximum after every sequence of
\* report_throughput and report_throttle calls.
ConcurrencyWithinBounds ==
    optimizer.pc = "ready" =>
        /\ optimizer._min <= optimizer._concurrency
        /\ optimizer._concurrency <= optimizer._max

\* A throttle report arrived at the floor after a full window of samples,
\* the last one of them at a probe step that stood at the cap.
ConcurrencyWithinBoundsWitness ==
    /\ optimizer.pc = "ready"
    /\ optimizer._min = 2
    /\ optimizer._concurrency = optimizer._min
    /\ optimizer._max > optimizer._min
    /\ optimizer.since_throttle = 0
    /\ Len(optimizer._history) = ADAPT_WINDOW

\* What a probe step that adjusts makes of the concurrency c of opt, over
\* the full window of samples h.
Adjusted(opt, h) ==
    LET t == trend(SubSeq(h, 5, 8), SubSeq(h, 1, 4))
    IN  IF t = 1 THEN Min(opt._concurrency + 1, opt._max)
        ELSE IF t = -1 THEN Max(opt._concurrency - 1, opt._min)
        ELSE opt._concurrency

\* C25: report_throttle sets concurrency to max(minimum, concurrency div 2)
\* at once; the next probe step leaves concurrency as it is whatever the
\* trend; the probe step after that one adjusts by the trend again.
ThrottleSuppressesOneProbe ==
    [][optimizer.pc = "ready" /\ optimizer' # optimizer =>
        /\ optimizer'.since_throttle = 0 =>
               optimizer'._concurrency =
                   Max(optimizer._min, optimizer._concurrency \div 2)
        /\ optimizer'.probed /\ optimizer.since_throttle = 0 =>
               optimizer'._concurrency = optimizer._concurrency
        /\ (/\ optimizer'.probed /\ optimizer.since_throttle = 1
            /\ Len(optimizer'._history) = ADAPT_WINDOW) =>
               optimizer'._concurrency = Adjusted(optimizer, optimizer'._history)]_vars

\* C26: suggest_concurrency(content_length) is 1 for a length below 1 MiB,
\* min(4, maximum) below 10 MiB, min(8, maximum) below 100 MiB,
\* min(16, maximum) from 100 MiB on, and minimum for an unknown length, for
\* every minimum and maximum.
SuggestBySizeBucket ==
    pc = "optimizer" /\ concurrency # 0 =>
        concurrency =
            CASE total_size = NoneInt -> optimizer._min
              [] total_size >= 0 /\ total_size < MiB -> 1
              [] total_size >= MiB /\ total_size < 10 * MiB ->
                     IF optimizer._max < 4 THEN optimizer._max ELSE 4
              [] total_size >= 10 * MiB /\ total_size < 100 * MiB ->
                     IF optimizer._max < 8 THEN optimizer._max ELSE 8
              [] total_size >= 100 * MiB ->
                     IF optimizer._max < 16 THEN optimizer._max ELSE 16

\* A length from 100 MiB on was asked of an optimizer that allows more than
\* 16 connections and has a minimum above 1.
SuggestBySizeBucketWitness ==
    /\ pc = "optimizer" /\ concurrency = 16
    /\ total_size >= 100 * MiB
    /\ optimizer._max > 16 /\ optimizer._min > 1

-----------------------------------------------------------------------------
(* Properties of the retry classifier (SpecClassifier).                    *)

\* C27: for every status code and every attempt >= 0, classify_status
\* returns fatal for 2xx and for 400, 401, 403, 404, 405, 410, 451;
\* retry_backoff after min(base * 2^attempt, max) for 429; retry_backoff
\* after min(base * 2^(attempt - 1), max) for 408, 500, 502, 503, 504;
\* retry_backoff after base for any other code; and no delay is above
\* max_backoff when base <= max_backoff.
ClassifyStatusTable ==
    classifier.pc = "classified" =>
        LET code == classifier.status_code
            base == classifier._base_backoff
            max == classifier._max_backoff
            doubled == base * Pow2(classifier.attempt)
            d == classifier.decision
        IN  /\ code \in 200 .. 299 \cup {400, 401, 403, 404, 405, 410, 451} =>
                   d.verdict = "fatal"
            /\ code = 429 =>
                   /\ d.verdict = "retry_backoff"
                   /\ d.delay_sec = (IF doubled <= max THEN doubled ELSE max)
            /\ code \in {408, 500, 502, 503, 504} =>
                   /\ d.verdict = "retry_backoff"
                   /\ 2 * d.delay_sec = (IF doubled <= 2 * max THEN doubled ELSE 2 * max)
            /\ code \notin 200 .. 299 \cup {400, 401, 403, 404, 405, 410, 451,
                                             429, 408, 500, 502, 503, 504} =>
                   /\ d.verdict = "retry_backoff"
                   /\ d.delay_sec = base
            /\ d.delay_sec <= max

\* A server error was classified at an attempt late enough for the delay
\* to be cut at max_backoff, which is above base_backoff.
ClassifyStatusTableWitness ==
    /\ classifier.pc = "classified"
    /\ classifier.status_code = 503
    /\ classifier._base_backoff < classifier._max_backoff
    /\ classifier._base_backoff * Pow2(classifier.attempt - 1) > classifier._max_backoff
    /\ classifier.decision.delay_sec = classifier._max_backoff

-----------------------------------------------------------------------------
(* Properties of bench (SpecBench).                                        *)

\* The HEAD requests among heads that failed: the transport raised, or
\* the status is not a success.
Failed(heads) ==
    {k \in 1 .. Len(heads) :
        heads[k].exc # "" \/ heads[k].status_code \notin 200 .. 299}

\* C28: bench(url, n) sends exactly n HEAD requests whatever they are
\* answered with, a failure among them does not end the benchmark, and the
\* result has requests_completed + requests_failed = n, a request being
\* failed when the transport raised or the status is not a success.
BenchCountsEveryRequest ==
    /\ bench.pc \in {"head", "get", "returned"} => Len(bench.heads) <= bench.iterations
    /\ bench.pc \in {"get", "returned"} => Len(bench.heads) = bench.iterations
    /\ bench.pc = "returned" =>
           /\ bench.result.requests_completed + bench.result.requests_failed =
                  bench.iterations
           /\ bench.result.requests_failed = Cardinality(Failed(bench.heads))

\* bench returned after a first HEAD that raised, a later one that
\* succeeded and one answered with a server error.
BenchCountsEveryRequestWitness ==
    /\ bench.pc = "returned"
    /\ Len(bench.heads) >= 3
    /\ bench.heads[1].exc # ""
    /\ \E k \in 2 .. Len(bench.heads) : bench.heads[k].status_code = 200
    /\ \E k \in 2 .. Len(bench.heads) : bench.heads[k].status_code = 503
    /\ bench.result.requests_completed >= 1
    /\ bench.result.requests_failed >= 2

-----------------------------------------------------------------------------
(* Properties of the phases by scheme (Spec).                              *)

\* C29: the sink of a fetch of a plaintext (http) url never observes phase
\* TLS, and the sink of a fetch of an https url observes TLS after
\* Connecting and before ProtocolLock.
TLSPhaseByScheme ==
    /\ [](request.scheme = "http" => sink.phase # "TLS")
    /\ [][request.scheme = "https" =>
            /\ sink.phase = "CONNECTING" /\ sink'.phase # sink.phase =>
                   sink'.phase = "TLS"
            /\ sink'.phase = "PROTOCOL LOCK" /\ sink'.phase # sink.phase =>
                   sink.phase = "TLS"]_vars

-----------------------------------------------------------------------------
(* Properties of the scheduler (SpecRun).                                  *)

\* C31: when every downloader call ends, execute returns, for every worker
\* bound K >= 1 and every plan; by then the downloader was called once for
\* every planned chunk (a task leaves the queue of the semaphore once and
\* never comes back to it) and every permit is free.
ExecuteTerminates ==
    /\ (pc = "execute") ~>
           (/\ pc = "verify"
            /\ Len(workers) = Len(chunks)
            /\ \A i \in 1 .. Len(workers) : workers[i].pc \in {"done", "raised"}
            /\ Holders = {})
    /\ [][\A i \in 1 .. Len(workers) :
             /\ Len(workers') = Len(workers)
             /\ workers[i].pc # "wait" => workers'[i].pc # "wait"
             /\ workers[i].pc = "wait" => workers'[i].pc \in {"wait", "inflight"}]_vars

\* execute has returned after three chunks shared one permit, and one of
\* them was retried.
ExecuteTerminatesWitness ==
    /\ pc = "verify"
    /\ concurrency = 1 /\ Len(chunks) = 3
    /\ \E i \in 1 .. Len(workers) : workers[i].pc = "done" /\ workers[i].attempt > 0

\* The byte range of a plan or of a result.
RangeOf(r) == <<r.start, r.end>>

\* C32: the byte ranges passed to the downloader during one execute are
\* the plan computed when execute started, also after feedback has changed
\* the chunker's current size: every result is for a range of that plan,
\* and when no call raised the results cover every range of it.
PlanNotRechunked ==
    pc \in {"execute", "verify"} =>
        LET plan == plan_chunks(request.chunk_size, total_size, offset)
        IN  /\ chunks = plan
            /\ \A k \in 1 .. Len(results) :
                   /\ results[k].index + 1 \in 1 .. Len(plan)
                   /\ RangeOf(results[k]) = RangeOf(plan[results[k].index + 1])
            /\ (pc = "verify" /\ \A i \in 1 .. Len(workers) : workers[i].pc = "done") =>
                   {RangeOf(results[k]) : k \in 1 .. Len(results)} =
                       {RangeOf(plan[i]) : i \in 1 .. Len(plan)}

\* execute has returned every chunk after feedback had halved the chunk
\* size, with which the plan would have more chunks.
PlanNotRechunkedWitness ==
    /\ pc = "verify"
    /\ Len(results) = Len(chunks)
    /\ chunk_size < request.chunk_size
    /\ Len(plan_chunks(chunk_size, total_size, offset)) > Len(chunks)

\* The sum of the data lengths of the successful results among rs.
DataOfSuccessful(rs) ==
    LET RECURSIVE total(_)
        total(k) == IF k = 0 THEN 0
                    ELSE total(k - 1) + (IF rs[k].success THEN Len(rs[k].data) ELSE 0)
    IN  total(Len(rs))

\* C35: no progress update is lost under any interleaving of chunk
\* completions: the completed bytes passed to on_progress are the sum of
\* the data lengths of the successful results appended so far, the values
\* passed grow strictly with every chunk that is not empty, and when
\* execute has returned completed_bytes is the sum over all successful
\* results.
ProgressNotLost ==
    /\ [](pc \in {"execute", "verify"} =>
            /\ completed_bytes = DataOfSuccessful(results)
            /\ sink.phase = "STREAM" /\ completed_bytes > 0 =>
                   sink.bytes_downloaded - offset = DataOfSuccessful(results))
    /\ [][pc = "execute" /\ sink' # sink =>
            /\ sink'.bytes_downloaded >= sink.bytes_downloaded
            /\ results'[Len(results')].data # <<>> =>
                   sink'.bytes_downloaded > sink.bytes_downloaded
            /\ sink'.bytes_downloaded - offset = DataOfSuccessful(results')]_vars

\* Two chunks have completed in the other order than planned, after a
\* failed one, and progress was reported for both.
ProgressNotLostWitness ==
    /\ pc = "execute"
    /\ Len(results) = 3
    /\ ~results[1].success /\ results[2].success /\ results[3].success
    /\ results[2].index > results[3].index
    /\ sink.bytes_downloaded = Len(results[2].data) + Len(results[3].data)

-----------------------------------------------------------------------------
(* Properties of the reported connections (Spec).                          *)

\* C38: in every TransferStats delivered during a parallel fetch,
\* active_connections is at most the worker bound K of the scheduler, the
\* number of permits of its semaphore.
ActiveConnectionsBounded ==
    sink.flux_mode = "PARALLEL" => sink.active_connections <= concurrency

-----------------------------------------------------------------------------
(* Properties of the probe step (SpecOptimizer).                           *)

\* C33: a probe step that no throttle report suppresses compares the mean
\* of the last 4 samples with the mean of the 4 samples before them, two
\* groups that do not overlap: it raises concurrency by 1 (up to maximum)
\* when the improvement is above 5%, lowers it by 1 (down to minimum) when
\* it is below -10%, and leaves it as it is otherwise, also when there are
\* fewer than 8 samples.
ProbeStepRule ==
    [][(/\ optimizer.pc = "ready" /\ optimizer' # optimizer
        /\ optimizer'.probed /\ optimizer._throttle_count = 0) =>
            optimizer'._concurrency =
                IF Len(optimizer'._history) < 8 THEN optimizer._concurrency
                ELSE Adjusted(optimizer, optimizer'._history)]_vars

-----------------------------------------------------------------------------
(* Properties of the single-stream path (Spec).                            *)

\* C34: in the single-stream path the output file holds exactly the bytes
\* that the current attempt has written, whatever an earlier attempt wrote
\* before it failed, and the byte count that fetch returns is the size of
\* the output file.
StreamRetryDiscards ==
    stats.flux_mode = "SINGLE" =>
        /\ strm.pc \in {"body", "returned"} =>
               /\ disk.exists
               /\ disk.data = Content(0, strm.downloaded - 1)
        /\ outcome.kind = "result" =>
               /\ disk.data = Content(0, server.size - 1)
               /\ outcome.bytes_downloaded = Len(disk.data)

\* A later attempt has its response and has opened the output file, after
\* an earlier attempt had written and reported part of the body and then
\* failed.
StreamRetryDiscardsWitness ==
    /\ stats.flux_mode = "SINGLE"
    /\ strm.pc = "body" /\ strm.attempt > 0
    /\ strm.downloaded = 0
    /\ stats.bytes_downloaded > 0
    /\ disk = File(<<>>)

-----------------------------------------------------------------------------
(* The single-stream path when no body breaks (SpecBoundary)               *)

\* The output file before the fetch holds one block more than the resource,
\* none of them a block of the resource: no download writes this file.
StaleFile == File([k \in 1 .. server.size + 1 |-> 0])

\* fetch of a small resource over the stale file.
BoundaryInit ==
    /\ Init
    /\ server.size \in SmallSizes
    /\ disk = StaleFile

\* The single-stream path with a transfer that, once a body has begun,
\* delivers it whole: what ends an attempt early is the answer to its
\* request (a status of 400 or more, or the request raising).
BoundaryNext ==
    \/ FetchStart
    \/ ProbeRound
    \/ ProbeWake
    \/ NotifyConnecting
    \/ NotifyTLS
    \/ NotifyProtocolLock
    \/ FetchAlreadyComplete
    \/ FetchSingle
    \/ StreamResponse
    \/ StreamBody
    \/ StreamEnd
    \/ StreamWake
    \/ Verify
    \/ Complete

SpecBoundary == BoundaryInit /\ [][BoundaryNext]_vars

-----------------------------------------------------------------------------
(* The digest of a returned fetch (Spec)                                   *)

\* C37: every FetchResult that fetch returns carries the SHA-256 of the
\* output file as it is on disk when fetch returns.
ResultCarriesSha256 ==
    outcome.kind = "result" => outcome.sha256 = compute_sha256(disk.data)

-----------------------------------------------------------------------------
(* The bytes below the resume offset (Spec)                                *)

\* The output file as it was before a fetch that found resume_offset
\* blocks in it: the files of OldFiles differ in length.
FileBefore ==
    CHOOSE old \in OldFiles(server.size) : old.exists /\ Len(old.data) = resume_offset

\* C36: when fetch returns a FetchResult with resumed=true, the output file
\* below the resume offset is what was on disk before the fetch, and no
\* request of the fetch asked for a byte below the resume offset: no GET
\* for the whole resource was sent, and every chunk of the plan starts at
\* the offset or above.
ResumedKeepsPrefix ==
    outcome.kind = "result" /\ outcome.resumed =>
        /\ Len(disk.data) >= resume_offset
        /\ SubSeq(disk.data, 1, resume_offset) = FileBefore.data
        /\ strm.requests = 0
        /\ \A i \in 1 .. Len(chunks) : chunks[i].start >= resume_offset

====
